---- MODULE Spec2Model ----
(***************************************************************************)
(* Model of the Main_Toolbar add-on: the menu path registry of utils.py    *)
(* (addon_actions, register_addon_tool, _refresh_menu, resolve_icon_path)  *)
(* the declarative loader of Run_add_ons.py (load_tools_from_config) and   *)
(* the declaration editor of toolbar_editor.py (ToolbarManager), and the   *)
(* duplicate-image cleanup of modules/IMG_dupes (run_img_dupes_script).    *)
(*                                                                         *)
(* A Python string is a sequence of tokens; "" is <<>>.  A token is an     *)
(* atomic piece of text, so startswith / split / replace on the token      *)
(* sequence agree with the same operation on the text.                     *)
(* A Python value that may be None, a str or another type is a record      *)
(* [t |-> "None" | "str" | "int" | "bool", s |-> <tokens>, b |-> BOOLEAN]. *)
(***************************************************************************)
EXTENDS Integers, Sequences, FiniteSets, TLC

VARIABLES
    addon_actions,   \* utils.addon_actions: dict in insertion order, <<[path, actions]>>
    menubar,         \* mw.form.menubar: the top-level menus, in order
    raised,          \* TRUE iff the last register_addon_tool call ended with an exception
    refreshes,       \* number of _refresh_menu runs so far
    lastCall,        \* arguments of the last register_addon_tool call (or NoCall)
    actionsB,        \* addon_actions of a second, independent run of the program
    menubarB,        \* menubar of that second run
    lastCallB,       \* arguments of the last register_addon_tool call of the second run
    iconIn,          \* argument handed to resolve_icon_path
    iconOut,         \* its outcome, once it was called
    tools_json,      \* assets/tools.json: [exists, tools], tools the sequence of records
    menuTools,       \* mw.form.menuTools: children of the host Tools menu
    submenu_lookup,  \* keys of Run_add_ons.submenu_lookup, in insertion order; the key ""
                     \* is the last custom menu of menuTools, another key its child
                     \* menu of that title
    shown,           \* showText dialogs shown by the loader, in order
    loadRaised,      \* TRUE iff the last load_tools_from_config ended with an exception
    loads,           \* number of load_tools_from_config runs so far
    CONFIG,          \* assets/config.json: a value or Missing for each key that is read
    actions_json,    \* assets/actions.json: [exists, valid, tools]
    actions_bak,     \* assets/actions.json.bak, same shape
    table,           \* rows of ToolbarManager.table while the dialog is open
    editor,          \* "closed", "open", or "failed" when the constructor raised
    windowTitle,     \* title of the editor dialog, once it was set
    dialogs,         \* showInfo / showText dialogs shown by the editor, in order
    opens,           \* number of open_toolbar_editor calls so far
    edits,           \* table edits since the dialog was opened
    saves,           \* number of save_tools calls so far
    fault,           \* where the file system failed in the last save_tools, or "none"
    macMenu,         \* outcome of add_mac_top_menu, once it ran
    saved,           \* what the last save_tools that wrote the whole file wrote, if any
    col,             \* mw.col: the notes of the collection, a note's id is its index
    pc,              \* position of the cleanup: "idle", "working" or "finished"
    query,           \* the normalized search query of the last accepted prompt
    note_ids,        \* the ids that find_notes returned
    cursor,          \* index in note_ids of the note that process_notes handles next
    removed_nids,    \* process_notes' list of the notes it wrote back
    ui,              \* dialogs of the cleanup, each with the thread that showed it
    finds,           \* number of find_notes calls so far
    runs,            \* number of run_img_dupes_script calls so far
    prompt,          \* how the last QInputDialog ended: [accepted, text], or NoPrompt
    CONFIG_wrap,     \* keyed_html_wrap.CONFIG: what the last reload_config left
    EDITOR_SHORTCUTS_REGISTERED,  \* keyed_html_wrap: the editors that were initialized
    shortcuts,       \* the QShortcut objects created on each editor's web view, in order
    touched,         \* the editors that had an editor_did_init / editor_did_load_note event
    hookRaised,      \* TRUE iff the last editor hook ended with an exception
    events,          \* number of editor events and reloads so far
    models,          \* col.models.all(): the note types, each with its number of cards
    lastDelete,      \* variant, configuration and askUser answer of the last
                     \* delete_empty_note_types call, or NoDelete
    delUi,           \* showInfo / askUser dialogs of delete_empty_note_types, in order
    delRaised,       \* TRUE iff the last delete_empty_note_types ended with an exception
    dels             \* number of delete_empty_note_types calls so far

vars == <<addon_actions, menubar, raised, refreshes, lastCall, actionsB, menubarB, lastCallB,
          iconIn, iconOut, tools_json, menuTools, submenu_lookup, shown, loadRaised, loads,
          CONFIG, actions_json, actions_bak, table, editor, windowTitle, dialogs, opens,
          edits, saves, fault, macMenu, saved, col, pc, query, note_ids, cursor, removed_nids, ui,
          finds, runs, prompt, CONFIG_wrap, EDITOR_SHORTCUTS_REGISTERED, shortcuts, touched,
          hookRaised, events, models, lastDelete, delUi, delRaised, dels>>

registryVars == <<addon_actions, menubar, raised, refreshes, lastCall>>
pairVars     == <<actionsB, menubarB, lastCallB>>
iconVars     == <<iconIn, iconOut>>
loaderVars   == <<tools_json, menuTools, submenu_lookup, shown, loadRaised, loads>>
editorVars   == <<CONFIG, actions_json, actions_bak, table, editor, windowTitle, dialogs,
                  opens, edits, saves, fault, macMenu, saved>>
dupesVars    == <<col, pc, query, note_ids, cursor, removed_nids, ui, finds, runs, prompt>>
wrapVars     == <<CONFIG_wrap, EDITOR_SHORTCUTS_REGISTERED, shortcuts, touched, hookRaised, events>>
deleteVars   == <<models, lastDelete, delUi, delRaised, dels>>

-----------------------------------------------------------------------------
(* Bounds *)

MaxRegs == 3        \* register_addon_tool calls in one run
MaxPairRegs == 3    \* register_addon_tool calls in each of two compared runs
MaxIconLen == 6     \* tokens in an icon reference
MaxRecords == 3     \* records in tools.json
MaxLoads == 2       \* load_tools_from_config runs
MaxRows == 1        \* rows the Add and Add Divider buttons append to (a file may load more)
MaxEdits == 1       \* table edits per opening of the editor
MaxSaves == 2       \* save_tools calls
MaxOpens == 1       \* open_toolbar_editor calls
MaxStarts == 1      \* main_window_did_init events next to the editor
MaxAttempts == 3    \* save_tools calls in a run that only saves
MaxNotes == 2       \* notes in the collection
MaxRuns == 2        \* run_img_dupes_script calls

-----------------------------------------------------------------------------
(* Python values and strings *)

PyNone == [t |-> "None", s |-> <<>>, b |-> FALSE]
PyStr(s) == [t |-> "str", s |-> s, b |-> FALSE]
PyInt == [t |-> "int", s |-> <<>>, b |-> TRUE]      \* a non-zero number
PyBool(v) == [t |-> "bool", s |-> <<>>, b |-> v]

\* bool(v): None, "" and False are falsy
Truthy(v) ==
    CASE v.t = "None" -> FALSE
      [] v.t = "str"  -> v.s # <<>>
      [] OTHER        -> v.b

StartsWith(s, p) == Len(s) >= Len(p) /\ SubSeq(s, 1, Len(p)) = p

RECURSIVE ReplaceAll(_, _)
\* str.replace(pat, ""): every non-overlapping occurrence, left to right
ReplaceAll(s, pat) ==
    IF s = <<>> THEN <<>>
    ELSE IF StartsWith(s, pat) THEN ReplaceAll(SubSeq(s, Len(pat) + 1, Len(s)), pat)
    ELSE <<Head(s)>> \o ReplaceAll(Tail(s), pat)

RECURSIVE SplitFrom(_, _)
\* s.split("::") continued with the segment cur already read
SplitFrom(s, cur) ==
    IF s = <<>> THEN <<cur>>
    ELSE IF Head(s) = "::" THEN <<cur>> \o SplitFrom(Tail(s), <<>>)
    ELSE SplitFrom(Tail(s), Append(cur, Head(s)))

\* s.split("::"): "" gives [""], "A::" gives ["A", ""]
Split(s) == SplitFrom(s, <<>>)

\* posix os.path.join(a, b)
Join2(a, b) ==
    IF StartsWith(b, <<"/">>) THEN b
    ELSE IF a = <<>> \/ a[Len(a)] = "/" THEN a \o b
    ELSE a \o <<"/">> \o b

\* os.path.dirname(__file__) of utils.py
addon_dir == <<"/", "addons21", "/", "Main_Toolbar">>

\* a key that a dict (a JSON object) does not hold
Missing == [t |-> "missing", s |-> <<>>, b |-> FALSE]

\* entry.get(key, default)
Get(entry, key, default) == IF entry[key].t = "missing" THEN default ELSE entry[key]

\* CONFIG.get("toolbar_title", "Custom Tools")
toolbar_title == Get(CONFIG, "toolbar_title", PyStr(<<"Custom Tools">>)).s

-----------------------------------------------------------------------------
(* utils.resolve_icon_path *)

\* the outcome of a call: the returned string, or a TypeError
Returned(s) == [raised |-> FALSE, s |-> s]
Raised == [raised |-> TRUE, s |-> <<>>]

resolve_icon_path(path) ==
    IF ~Truthy(path) THEN Returned(<<>>)
    ELSE IF path.t # "str" THEN Raised                       \* os.path.isabs(5)
    ELSE IF StartsWith(path.s, <<"/">>) THEN Returned(path.s)
    ELSE IF StartsWith(path.s, <<":", "assets", "/">>)
         THEN Returned(Join2(Join2(addon_dir, <<"assets">>),
                             ReplaceAll(path.s, <<":", "assets", "/">>)))
    ELSE IF StartsWith(path.s, <<":">>) THEN Returned(path.s)
    ELSE IF StartsWith(path.s, <<"assets", "/">>) \/ StartsWith(path.s, <<"icons", "/">>)
         THEN Returned(Join2(addon_dir, path.s))
    ELSE Returned(Join2(Join2(addon_dir, <<"icons">>), path.s))

-----------------------------------------------------------------------------
(* Menu nodes: a QMenu, and the QActions and separators a QMenu holds *)

Menu(title, owner, children) ==
    [kind |-> "menu", title |-> title, owner |-> owner, children |-> children]

\* a QAction after connect / setEnabled / setIcon; callback "" means not connected
Item(text, callback, enabled, icon) ==
    [kind |-> "action", text |-> text, callback |-> callback, enabled |-> enabled, icon |-> icon]

Separator == [kind |-> "separator"]

\* triggered.connect(callback) raises TypeError unless callback is callable
Callable(callback) == callback # "not_callable"

Range(f) == {f[i] : i \in DOMAIN f}

\* index of the first element of seq satisfying Test, 0 when there is none
FirstIndex(seq, Test(_)) ==
    IF \E i \in DOMAIN seq : Test(seq[i])
    THEN CHOOSE i \in DOMAIN seq : Test(seq[i]) /\ \A j \in 1..(i - 1) : ~Test(seq[j])
    ELSE 0

-----------------------------------------------------------------------------
(* utils._refresh_menu *)

\* every key grouped under the toolbar title
TopTitleAlwaysRoot(submenu_path) == toolbar_title

\* the top-level title a registry key is grouped under (lines 75 and 101)
TopTitle(submenu_path) ==
    IF submenu_path # <<>> THEN Split(submenu_path)[1] ELSE toolbar_title

existing_titles(actions) == {TopTitle(actions[i].path) : i \in DOMAIN actions}

\* the removal forgotten: the menus of the previous rebuild stay
RemoveNothing(bar, actions) == bar

\* lines 77-79: every menubar menu whose title is in existing_titles is removed
RemoveExisting(bar, actions) ==
    SelectSeq(bar, LAMBDA m : m.title \notin existing_titles(actions))

RECURSIVE add_nested_action(_, _, _)
\* result: the menu as the call leaves it, and whether the call raised
add_nested_action(menu, path, e) ==
    IF path = <<>>
    THEN IF ~Callable(e.callback) THEN [raised |-> TRUE, menu |-> menu]
         ELSE IF Truthy(e.icon) /\ resolve_icon_path(e.icon).raised
              THEN [raised |-> TRUE, menu |-> menu]
         ELSE [raised |-> FALSE,
               menu |-> [menu EXCEPT !.children =
                            Append(@, Item(e.name, e.callback, e.enabled,
                                           IF Truthy(e.icon) THEN resolve_icon_path(e.icon).s
                                           ELSE <<>>))]]
    ELSE LET head == Head(path)
             found == FirstIndex(menu.children,
                                 LAMBDA a : a.kind = "menu" /\ a.title = head)
             kids == IF found = 0 THEN Append(menu.children, Menu(head, "addon", <<>>))
                     ELSE menu.children
             pos == IF found = 0 THEN Len(kids) ELSE found
             r == add_nested_action(kids[pos], Tail(path), e)
         IN  [raised |-> r.raised,
              menu |-> [menu EXCEPT !.children = [kids EXCEPT ![pos] = r.menu]]]

RECURSIVE AddActionsReversed(_, _, _)
\* the entries of a key added last first
AddActionsReversed(menu, path, entries) ==
    IF entries = <<>> THEN [raised |-> FALSE, menu |-> menu]
    ELSE LET r == add_nested_action(menu, path, entries[Len(entries)])
         IN  IF r.raised THEN r
             ELSE AddActionsReversed(r.menu, path, SubSeq(entries, 1, Len(entries) - 1))

RECURSIVE AddActions(_, _, _)
\* lines 108-109 for one registry key: the entries in list order, until one raises
AddActions(menu, path, entries) ==
    IF entries = <<>> THEN [raised |-> FALSE, menu |-> menu]
    ELSE LET r == add_nested_action(menu, path, Head(entries))
         IN  IF r.raised THEN r ELSE AddActions(r.menu, path, Tail(entries))

RECURSIVE AddGrouped(_, _)
\* lines 106-109: the keys grouped under one top title, in dict order
AddGrouped(menu, grouped) ==
    IF grouped = <<>> THEN [raised |-> FALSE, menu |-> menu]
    ELSE LET submenu_path == Head(grouped).path
             path == IF submenu_path # <<>> THEN Tail(Split(submenu_path)) ELSE <<>>
             r == AddActions(menu, path, Head(grouped).actions)
         IN  IF r.raised THEN r ELSE AddGrouped(r.menu, Tail(grouped))

RECURSIVE TopTitles(_)
\* keys of menu_groups: the top titles in order of first appearance (lines 99-102)
TopTitles(actions) ==
    IF actions = <<>> THEN <<>>
    ELSE LET before == TopTitles(SubSeq(actions, 1, Len(actions) - 1))
             top == TopTitle(actions[Len(actions)].path)
         IN  IF top \in Range(before) THEN before ELSE Append(before, top)

menu_groups(actions, top) == SelectSeq(actions, LAMBDA kv : TopTitle(kv.path) = top)

RECURSIVE BuildTopMenus(_, _, _)
\* lines 104-110: a top menu reaches the menubar only when all its actions were added
BuildTopMenus(bar, tops, actions) ==
    IF tops = <<>> THEN [raised |-> FALSE, bar |-> bar]
    ELSE LET r == AddGrouped(Menu(Head(tops), "addon", <<>>), menu_groups(actions, Head(tops)))
         IN  IF r.raised THEN [raised |-> TRUE, bar |-> bar]
             ELSE BuildTopMenus(Append(bar, r.menu), Tail(tops), actions)

\* a rebuild on top of what the menubar already shows
RefreshWithoutRemoval(bar, actions) ==
    BuildTopMenus(bar, TopTitles(actions), actions)

_refresh_menu(bar, actions) ==
    BuildTopMenus(RemoveExisting(bar, actions), TopTitles(actions), actions)

-----------------------------------------------------------------------------
(* utils.register_addon_tool *)

Entry(name, callback, icon, enabled) ==
    [name |-> name, callback |-> callback, icon |-> icon, enabled |-> enabled]

\* the entry put in front of the list of its key
SetDefaultPrepend(actions, key, entry) ==
    LET found == FirstIndex(actions, LAMBDA kv : kv.path = key)
    IN  IF found = 0 THEN Append(actions, [path |-> key, actions |-> <<entry>>])
        ELSE [actions EXCEPT ![found].actions = <<entry>> \o @]

\* addon_actions.setdefault(key, []).append(entry)
SetDefaultAppend(actions, key, entry) ==
    LET found == FirstIndex(actions, LAMBDA kv : kv.path = key)
    IN  IF found = 0 THEN Append(actions, [path |-> key, actions |-> <<entry>>])
        ELSE [actions EXCEPT ![found].actions = Append(@, entry)]

\* submenu_name or ""
KeyOf(submenu_name) == IF Truthy(submenu_name) THEN submenu_name.s ELSE <<>>

\* the registry and the menubar after register_addon_tool(...)
Registered(actions, bar, name, callback, submenu_name, icon, enabled) ==
    LET items == SetDefaultAppend(actions, KeyOf(submenu_name),
                                  Entry(name, callback, icon, enabled))
        r == _refresh_menu(bar, items)
    IN  [actions |-> items, bar |-> r.bar, raised |-> r.raised]

NoCall == [name |-> <<>>, callback |-> "", submenu_name |-> PyNone, icon |-> PyNone,
           enabled |-> FALSE, made |-> FALSE]

register_addon_tool(name, callback, submenu_name, icon, enabled) ==
    LET r == Registered(addon_actions, menubar, name, callback, submenu_name, icon, enabled)
    IN  /\ addon_actions' = r.actions
        /\ menubar' = r.bar
        /\ raised' = r.raised
        /\ refreshes' = refreshes + 1
        /\ lastCall' = [name |-> name, callback |-> callback, submenu_name |-> submenu_name,
                        icon |-> icon, enabled |-> enabled, made |-> TRUE]

-----------------------------------------------------------------------------
(* The runs of the registry that are explored *)

\* the menus the host application and other add-ons put in the menubar
HostMenubar ==
    << Menu(<<"File">>, "host", <<>>),
       Menu(<<"Tools">>, "host", <<>>),
       Menu(<<"Custom Tools">>, "host", <<>>) >>

SubmenuNames ==
    { PyNone, PyStr(<<>>), PyStr(<<"A", "::", "B">>), PyStr(<<"A", "::", "B", "::", "A">>),
      PyStr(<<"Custom Tools">>), PyStr(<<"Custom Tools", "::", "B">>),
      PyStr(<<"Tools", "::", "A">>) }

\* (name, callback, icon, enabled) of the calls
ToolArgs ==
    { Entry(<<"Run">>, "cb1", PyNone, TRUE),
      Entry(<<"Run">>, "cb2", PyStr(<<"x">>), FALSE),
      Entry(<<"Bad">>, "not_callable", PyNone, TRUE) }

InitRegistry ==
    /\ addon_actions = <<>>
    /\ menubar = HostMenubar
    /\ raised = FALSE
    /\ refreshes = 0
    /\ lastCall = NoCall

InitPair == actionsB = <<>> /\ menubarB = HostMenubar /\ lastCallB = NoCall

NotCalled == [called |-> FALSE, raised |-> FALSE, s |-> <<>>]

InitIcon == iconIn = PyNone /\ iconOut = NotCalled

NoFile == [exists |-> FALSE, tools |-> <<>>]

InitLoader ==
    /\ tools_json = NoFile
    /\ menuTools = <<>>
    /\ submenu_lookup = <<>>
    /\ shown = <<>>
    /\ loadRaised = FALSE
    /\ loads = 0

\* assets/config.json without any of the keys that the add-on reads with a default
ConfigWith(title, enable, names) ==
    [toolbar_title |-> title, default_submenu |-> Missing, default_icon |-> Missing,
     enable_toolbar_settings |-> enable, Other_addon_names |-> names]

Config(title) == ConfigWith(title, Missing, Missing)

NoActions == [exists |-> FALSE, valid |-> TRUE, tools |-> <<>>]

NotRun == [ran |-> FALSE, raised |-> FALSE, title |-> <<>>]

InitEditor ==
    /\ CONFIG = Config(PyStr(<<"Custom Tools">>))
    /\ actions_json = NoActions
    /\ actions_bak = NoActions
    /\ table = <<>>
    /\ editor = "closed"
    /\ windowTitle = <<>>
    /\ dialogs = <<>>
    /\ opens = 0
    /\ edits = 0
    /\ saves = 0
    /\ fault = "none"
    /\ macMenu = NotRun
    /\ saved = NoActions

Prompt(accepted, text) == [shown |-> TRUE, accepted |-> accepted, text |-> text]

NoPrompt == [shown |-> FALSE, accepted |-> FALSE, text |-> <<>>]

InitDupes ==
    /\ col = <<>>
    /\ pc = "idle"
    /\ query = <<>>
    /\ note_ids = <<>>
    /\ cursor = 0
    /\ removed_nids = <<>>
    /\ ui = <<>>
    /\ finds = 0
    /\ runs = 0
    /\ prompt = NoPrompt

Editors == {"e1", "e2"}

(* keyed_html_wrap/config.json as json.load returns it, or Unreadable when   *)
(* open / json.load raises.  A dict is [t |-> "dict", shortcuts |-> v] with  *)
(* v Missing, a mapping (<<[key, template]>> in insertion order) or another  *)
(* JSON value.                                                               *)
Unreadable == [t |-> "unreadable"]

PyDict(v) == [t |-> "dict", shortcuts |-> v]

Mapping(items) == [t |-> "mapping", items |-> items]

IsDict(v) == v.t = "dict"

IsMapping(v) == v.t = "mapping"

reload_config(file) == IF file = Unreadable THEN PyDict(Mapping(<<>>)) ELSE file

InitWrap ==
    /\ CONFIG_wrap = reload_config(Unreadable)
    /\ EDITOR_SHORTCUTS_REGISTERED = {}
    /\ shortcuts = [e \in Editors |-> <<>>]
    /\ touched = {}
    /\ hookRaised = FALSE
    /\ events = 0

NoDelete == [variant |-> "none", protected |-> {}, confirm |-> FALSE, answer |-> FALSE]

InitDelete ==
    /\ models = <<>>
    /\ lastDelete = NoDelete
    /\ delUi = <<>>
    /\ delRaised = FALSE
    /\ dels = 0

Register ==
    /\ refreshes < MaxRegs
    /\ \E sub \in SubmenuNames, a \in ToolArgs :
          register_addon_tool(a.name, a.callback, sub, a.icon, a.enabled)
    /\ UNCHANGED <<pairVars, iconVars, loaderVars, editorVars, dupesVars, wrapVars, deleteVars>>

Init == InitRegistry /\ InitPair /\ InitIcon /\ InitLoader /\ InitEditor /\ InitDupes /\ InitWrap /\ InitDelete

Next == Register

Spec == Init /\ [][Next]_vars

-----------------------------------------------------------------------------
(* Two runs of the program side by side, to compare the trees they end with *)

PairNames == { PyStr(<<>>), PyStr(<<"A", "::", "B">>) }

PairArgs ==
    { Entry(<<"Run">>, "cb1", PyNone, TRUE),
      Entry(<<"Bad">>, "not_callable", PyNone, TRUE) }

RECURSIVE Count(_)
\* number of entries in a registry
Count(actions) ==
    IF actions = <<>> THEN 0 ELSE Len(Head(actions).actions) + Count(Tail(actions))

RegisterA ==
    /\ refreshes < MaxPairRegs
    /\ \E sub \in PairNames, a \in PairArgs :
          register_addon_tool(a.name, a.callback, sub, a.icon, a.enabled)
    /\ UNCHANGED <<pairVars, iconVars, loaderVars, editorVars, dupesVars, wrapVars, deleteVars>>

RegisterB ==
    /\ Count(actionsB) < MaxPairRegs
    /\ \E sub \in PairNames, a \in PairArgs :
          LET r == Registered(actionsB, menubarB, a.name, a.callback, sub, a.icon, a.enabled)
          IN  /\ actionsB' = r.actions
              /\ menubarB' = r.bar
              /\ lastCallB' = [name |-> a.name, callback |-> a.callback,
                               submenu_name |-> sub, icon |-> a.icon,
                               enabled |-> a.enabled, made |-> TRUE]
    /\ UNCHANGED <<registryVars, iconVars, loaderVars, editorVars, dupesVars, wrapVars, deleteVars>>

NextPair == RegisterA \/ RegisterB

SpecPair == Init /\ [][NextPair]_vars

-----------------------------------------------------------------------------
(* resolve_icon_path applied to every icon reference up to a length *)

IconTokens == {":", "assets", "/", "icons", "x"}

\* None, "" and every string of at most MaxIconLen tokens
IconInputs ==
    {PyNone} \cup {PyStr(s) : s \in UNION {[1..n -> IconTokens] : n \in 0..MaxIconLen}}

InitIconRun ==
    /\ InitRegistry /\ InitPair /\ InitLoader /\ InitEditor /\ InitDupes /\ InitWrap /\ InitDelete
    /\ iconIn \in IconInputs
    /\ iconOut = NotCalled

Resolve ==
    /\ ~iconOut.called
    /\ LET r == resolve_icon_path(iconIn)
       IN  iconOut' = [called |-> TRUE, raised |-> r.raised, s |-> r.s]
    /\ UNCHANGED <<iconIn, registryVars, pairVars, loaderVars, editorVars, dupesVars, wrapVars, deleteVars>>

NextIcon == Resolve

SpecIcon == InitIconRun /\ [][NextIcon]_vars

-----------------------------------------------------------------------------
(* Run_add_ons.load_tools_from_config *)

\* a key that a JSON record does not have
RECURSIVE LStrip(_)
LStrip(s) == IF s # <<>> /\ Head(s) = " " THEN LStrip(Tail(s)) ELSE s

RECURSIVE RStrip(_)
RStrip(s) == IF s # <<>> /\ s[Len(s)] = " " THEN RStrip(SubSeq(s, 1, Len(s) - 1)) ELSE s

\* str.strip()
Strip(s) == RStrip(LStrip(s))

\* importlib.import_module(module_path) followed by getattr(module, func_name), in
\* an installation with one importable module that has one function and one constant,
\* next to the add-on's own toolbar_editor module
Lookup(module_path, func_name) ==
    IF module_path.t = "str" /\ module_path.s = <<"Main_Toolbar.toolbar_editor">>
    THEN IF func_name.t = "str" /\ func_name.s = <<"edit_toolbar_json">>
         THEN [ok |-> TRUE, callback |-> "edit_toolbar_json"]
         ELSE [ok |-> FALSE, callback |-> ""]
    ELSE IF module_path.t # "str" \/ module_path.s # <<"mods.ok">>
    THEN [ok |-> FALSE, callback |-> ""]                              \* ImportError
    ELSE IF func_name.t = "str" /\ func_name.s = <<"run">>
         THEN [ok |-> TRUE, callback |-> "mods.ok.run"]
    ELSE IF func_name.t = "str" /\ func_name.s = <<"VERSION">>
         THEN [ok |-> TRUE, callback |-> "not_callable"]
    ELSE [ok |-> FALSE, callback |-> ""]                              \* AttributeError

\* the state of one run of the loop: the custom menu, the keys of submenu_lookup, the
\* dialogs shown, and whether an exception left the function
LoadState(menu, lookup, msgs, exc) ==
    [menu |-> menu, lookup |-> lookup, msgs |-> msgs, raised |-> exc]

\* lines 113-118: the submenu is created, as a child of the custom menu, on first use
get_or_create_submenu(st, name) ==
    IF name \in Range(st.lookup) THEN st
    ELSE [st EXCEPT !.lookup = Append(@, name),
                    !.menu.children = Append(@, Menu(name, "addon", <<>>))]

\* submenu.addAction / addSeparator on the menu submenu_lookup[name]
AddToSubmenu(menu, name, node) ==
    IF name = <<>> THEN [menu EXCEPT !.children = Append(@, node)]
    ELSE LET i == FirstIndex(menu.children, LAMBDA a : a.kind = "menu" /\ a.title = name)
         IN  [menu EXCEPT !.children[i].children = Append(@, node)]

\* lines 155: a functional record without name, function or module
Malformed(name, func_name, module_path) ==
    name = <<>> \/ ~Truthy(func_name) \/ ~Truthy(module_path)

\* action.setEnabled(enabled) takes a bool (or an int), anything else is a TypeError
EnabledAccepted(enabled) == enabled.t \in {"bool", "int"}

\* the tool item without its callback: connect skipped for a disabled tool
RegisterToolUnlessDisabled(st, submenu_name, name, icon, enabled, callback) ==
    IF Truthy(icon) /\ resolve_icon_path(icon).raised
    THEN [st EXCEPT !.menu = AddToSubmenu(@, submenu_name, Item(name, "", TRUE, <<>>)),
                    !.msgs = Append(@, [kind |-> "register", name |-> name])]
    ELSE LET path == IF Truthy(icon) THEN resolve_icon_path(icon).s ELSE <<>>
         IN  IF ~EnabledAccepted(enabled)
             THEN [st EXCEPT !.menu = AddToSubmenu(@, submenu_name, Item(name, "", TRUE, path)),
                             !.msgs = Append(@, [kind |-> "register", name |-> name])]
             ELSE IF ~Callable(callback)
             THEN [st EXCEPT !.menu = AddToSubmenu(@, submenu_name,
                                                   Item(name, "", enabled.b, path)),
                             !.msgs = Append(@, [kind |-> "register", name |-> name])]
             ELSE [st EXCEPT !.menu = AddToSubmenu(@, submenu_name,
                                 Item(name, IF enabled.b THEN callback ELSE "", enabled.b, path))]

\* lines 171-187: addAction, setIcon, setEnabled, connect; the first of them that
\* raises ends the registration with a dialog, the action already added stays
RegisterTool(st, submenu_name, name, icon, enabled, callback) ==
    IF Truthy(icon) /\ resolve_icon_path(icon).raised
    THEN [st EXCEPT !.menu = AddToSubmenu(@, submenu_name, Item(name, "", TRUE, <<>>)),
                    !.msgs = Append(@, [kind |-> "register", name |-> name])]
    ELSE LET path == IF Truthy(icon) THEN resolve_icon_path(icon).s ELSE <<>>
         IN  IF ~EnabledAccepted(enabled)
             THEN [st EXCEPT !.menu = AddToSubmenu(@, submenu_name, Item(name, "", TRUE, path)),
                             !.msgs = Append(@, [kind |-> "register", name |-> name])]
             ELSE IF ~Callable(callback)
             THEN [st EXCEPT !.menu = AddToSubmenu(@, submenu_name,
                                                   Item(name, "", enabled.b, path)),
                             !.msgs = Append(@, [kind |-> "register", name |-> name])]
             ELSE [st EXCEPT !.menu = AddToSubmenu(@, submenu_name,
                                                   Item(name, callback, enabled.b, path))]

\* lines 131-187: one turn of the loop
ProcessEntry(st, entry) ==
    LET type_v == Get(entry, "type", PyStr(<<>>))
        name_v == Get(entry, "name", PyStr(<<>>))
        submenu_v == Get(entry, "submenu", PyStr(<<>>))
    IN  IF type_v.t # "str" \/ name_v.t # "str" \/ submenu_v.t # "str"
        THEN [st EXCEPT !.raised = TRUE]                 \* .strip() of a non-string
        ELSE
        LET entry_type == Strip(type_v.s)
            name == Strip(name_v.s)
            submenu_name == Strip(submenu_v.s)
            icon == Get(entry, "icon", PyNone)
            enabled == Get(entry, "enabled", PyBool(TRUE))
            sub == get_or_create_submenu(st, submenu_name)
            func_name == Get(entry, "function", PyNone)
            module_path == Get(entry, "module", PyNone)
            found == Lookup(module_path, func_name)
        IN  IF entry_type = <<"separator">>
            THEN [sub EXCEPT !.menu = AddToSubmenu(@, submenu_name, Separator)]
            ELSE IF entry_type = <<"label">>
            THEN [sub EXCEPT !.menu = AddToSubmenu(@, submenu_name,
                                         Item(IF name # <<>> THEN name ELSE <<"---">>,
                                              "", FALSE, <<>>))]
            ELSE IF Malformed(name, func_name, module_path) THEN sub
            ELSE IF ~found.ok
            THEN [sub EXCEPT !.msgs = Append(@, [kind |-> "import", name |-> name])]
            ELSE RegisterTool(sub, submenu_name, name, icon, enabled, found.callback)

RECURSIVE ProcessTools(_, _)
\* line 130: the records in file order; an exception ends the loop
ProcessTools(st, tools) ==
    IF tools = <<>> \/ st.raised THEN st
    ELSE ProcessTools(ProcessEntry(st, Head(tools)), Tail(tools))

\* lines 103-128 and the loop: the outcome of one run on a tools.json
Loaded(file) ==
    LET start == LoadState(Menu(toolbar_title, "addon", <<>>), <<<<>>>>, <<>>, FALSE)
    IN  IF ~file.exists THEN start ELSE ProcessTools(start, file.tools)

load_tools_from_config ==
    LET r == Loaded(tools_json)
    IN  /\ menuTools' = menuTools \o <<Separator, r.menu>>
        /\ submenu_lookup' = r.lookup
        /\ shown' = shown \o r.msgs
        /\ loadRaised' = r.raised
        /\ loads' = loads + 1
        /\ UNCHANGED tools_json

-----------------------------------------------------------------------------
(* The tools.json files that are explored *)

Record(type, name, module, function, submenu, icon, enabled) ==
    [type |-> type, name |-> name, module |-> module, function |-> function,
     submenu |-> submenu, icon |-> icon, enabled |-> enabled]

ToolRecords ==
    { Record(PyStr(<<"separator">>), Missing, Missing, Missing, Missing, Missing, Missing),
      Record(PyStr(<<"label">>), PyStr(<<"Info">>), Missing, Missing, PyStr(<<"S">>),
             Missing, Missing),
      Record(Missing, PyStr(<<"Tool">>), PyStr(<<"mods.ok">>), PyStr(<<"run">>), Missing,
             PyNone, Missing),
      Record(Missing, PyStr(<<" ", "Tool", " ">>), PyStr(<<"mods.ok">>), PyStr(<<"run">>),
             PyStr(<<"S">>), PyStr(<<"x">>), PyBool(FALSE)),
      Record(Missing, PyStr(<<"Gone">>), PyStr(<<"mods.missing">>), PyStr(<<"run">>),
             PyStr(<<"T">>), PyNone, PyBool(TRUE)),
      Record(Missing, PyStr(<<"Gone">>), PyStr(<<"mods.ok">>), PyStr(<<"nope">>), Missing,
             PyNone, PyBool(TRUE)),
      Record(Missing, PyStr(<<" ">>), PyStr(<<"mods.ok">>), PyStr(<<"run">>), PyStr(<<"U">>),
             PyNone, PyBool(TRUE)),
      Record(Missing, PyStr(<<"Const">>), PyStr(<<"mods.ok">>), PyStr(<<"VERSION">>), Missing,
             PyNone, PyBool(TRUE)) }

ToolFiles ==
    {NoFile} \cup {[exists |-> TRUE, tools |-> t] :
                      t \in UNION {[1..n -> ToolRecords] : n \in 0..MaxRecords}}

InitLoaderRun ==
    /\ InitRegistry /\ InitPair /\ InitIcon /\ InitEditor /\ InitDupes /\ InitWrap /\ InitDelete
    /\ tools_json \in ToolFiles
    /\ menuTools = <<>>
    /\ submenu_lookup = <<>>
    /\ shown = <<>>
    /\ loadRaised = FALSE
    /\ loads = 0

Load ==
    /\ loads < MaxLoads
    /\ load_tools_from_config
    /\ UNCHANGED <<registryVars, pairVars, iconVars, editorVars, dupesVars, wrapVars, deleteVars>>

NextLoader == Load

SpecLoader == InitLoaderRun /\ [][NextLoader]_vars

-----------------------------------------------------------------------------
(* Run_add_ons.load_other_configs, the hook that follows load_tools_from_config *)

\* a JSON array of strings
PyList(items) == [t |-> "list", s |-> items, b |-> items # <<>>]

ConfigsTitle == <<"Add-ons Configurations">>

\* addon.replace("_", " ").replace("-", " ").title(), without emoji or nickname
format_config_label(addon) ==
    CASE addon = "addon_a" -> <<"Addon A">>
      [] addon = "addon_b" -> <<"Addon B">>
      [] OTHER -> <<addon>>

\* the items made from build_config_tools(CONFIG, make_open_fn): icon is
\* config.get("default_icon"), the callback a closure that opens the dialog
build_config_tools ==
    LET names == Get(CONFIG, "Other_addon_names", PyList(<<>>)).s
        icon == Get(CONFIG, "default_icon", PyNone)
    IN  [i \in DOMAIN names |->
            Item(format_config_label(names[i]), "open_config", TRUE,
                 IF Truthy(icon) THEN resolve_icon_path(icon).s ELSE <<>>)]

RECURSIVE AddAll(_, _, _)
\* submenu.addAction for each tool, in order
AddAll(menu, name, items) ==
    IF items = <<>> THEN menu
    ELSE AddAll(AddToSubmenu(menu, name, Head(items)), name, Tail(items))

\* load_other_configs on the host Tools menu mt and the keys of submenu_lookup,
\* whose key "" is the custom menu that the last load appended to mt
load_other_configs(mt, lookup) ==
    IF ~Truthy(Get(CONFIG, "enable_toolbar_settings", PyBool(FALSE)))
    THEN [menuTools |-> mt, lookup |-> lookup, msgs |-> <<>>]
    ELSE IF ~\E i \in DOMAIN mt : mt[i].kind = "menu" /\ mt[i].title = toolbar_title
    THEN [menuTools |-> mt, lookup |-> lookup, msgs |-> <<>>]
    ELSE IF ConfigsTitle \notin Range(lookup) /\ <<>> \notin Range(lookup)
    THEN [menuTools |-> mt, lookup |-> lookup,
          msgs |-> <<[kind |-> "configs", name |-> ConfigsTitle]>>]       \* KeyError, caught
    ELSE LET custom == mt[Len(mt)]
             known == ConfigsTitle \in Range(lookup)
             withSubmenu ==
                 IF known THEN custom
                 ELSE [custom EXCEPT
                          !.children = <<Separator, Menu(ConfigsTitle, "addon", <<>>)>> \o @]
         IN  [menuTools |-> [mt EXCEPT ![Len(mt)] =
                                AddAll(withSubmenu, ConfigsTitle, build_config_tools)],
              lookup |-> IF known THEN lookup ELSE Append(lookup, ConfigsTitle),
              msgs |-> <<>>]

\* the main_window_did_init event: the hooks in the order __init__.py appended them;
\* an exception that leaves load_tools_from_config ends the event
main_window_did_init ==
    LET r == Loaded(tools_json)
        mt == menuTools \o <<Separator, r.menu>>
        o == IF r.raised THEN [menuTools |-> mt, lookup |-> r.lookup, msgs |-> <<>>]
             ELSE load_other_configs(mt, r.lookup)
    IN  /\ menuTools' = o.menuTools
        /\ submenu_lookup' = o.lookup
        /\ shown' = shown \o r.msgs \o o.msgs
        /\ loadRaised' = r.raised
        /\ loads' = loads + 1
        /\ UNCHANGED tools_json

ConfigRecords ==
    ToolRecords \cup
        { Record(Missing, PyStr(<<"Tool">>), PyStr(<<"mods.ok">>), PyStr(<<"run">>),
                 PyStr(ConfigsTitle), PyNone, PyBool(TRUE)) }

InitConfigsRun ==
    /\ InitRegistry /\ InitPair /\ InitIcon /\ InitDupes /\ InitWrap /\ InitDelete
    /\ tools_json \in {NoFile} \cup {[exists |-> TRUE, tools |-> t] :
                          t \in UNION {[1..n -> ConfigRecords] : n \in 0..MaxRecords}}
    /\ menuTools = <<>>
    /\ submenu_lookup = <<>>
    /\ shown = <<>>
    /\ loadRaised = FALSE
    /\ loads = 0
    /\ \E enable \in {Missing, PyBool(TRUE)} :
          CONFIG = ConfigWith(PyStr(<<"Custom Tools">>), enable,
                              PyList(<<"addon_a", "addon_b">>))
    /\ actions_json = NoActions
    /\ actions_bak = NoActions
    /\ table = <<>>
    /\ editor = "closed"
    /\ windowTitle = <<>>
    /\ dialogs = <<>>
    /\ opens = 0
    /\ edits = 0
    /\ saves = 0
    /\ fault = "none"
    /\ macMenu = NotRun
    /\ saved = NoActions

DidInit ==
    /\ loads < MaxLoads
    /\ main_window_did_init
    /\ UNCHANGED <<registryVars, pairVars, iconVars, editorVars, dupesVars, wrapVars, deleteVars>>

NextConfigs == DidInit

SpecConfigs == InitConfigsRun /\ [][NextConfigs]_vars

-----------------------------------------------------------------------------
(* tools.json files that also hold records outside the documented shape *)

\* an element of the JSON array that is not an object: entry.get is an AttributeError
NotAnObject == [t |-> "notobject", s |-> <<>>, b |-> FALSE]

OddRecords ==
    { Record(Missing, PyNone, PyStr(<<"mods.ok">>), PyStr(<<"run">>), Missing, PyNone,
             PyBool(TRUE)),
      Record(PyNone, PyStr(<<"Tool">>), PyStr(<<"mods.ok">>), PyStr(<<"run">>), Missing,
             PyNone, PyBool(TRUE)),
      Record(NotAnObject, NotAnObject, NotAnObject, NotAnObject, NotAnObject, NotAnObject,
             NotAnObject),
      Record(Missing, PyStr(<<"Deep">>), PyStr(<<"mods.ok">>), PyStr(<<"run">>),
             PyStr(<<"A", "::", "B">>), PyNone, PyBool(TRUE)),
      Record(Missing, PyStr(<<"Deeper">>), PyStr(<<"mods.ok">>), PyStr(<<"run">>),
             PyStr(<<"A", "::", "C">>), PyNone, PyBool(TRUE)) }

AnyToolFiles ==
    {NoFile} \cup {[exists |-> TRUE, tools |-> t] :
                      t \in UNION {[1..n -> ToolRecords \cup OddRecords] : n \in 0..MaxRecords}}

InitLoaderAnyRun ==
    /\ InitRegistry /\ InitPair /\ InitIcon /\ InitEditor /\ InitDupes /\ InitWrap /\ InitDelete
    /\ tools_json \in AnyToolFiles
    /\ menuTools = <<>>
    /\ submenu_lookup = <<>>
    /\ shown = <<>>
    /\ loadRaised = FALSE
    /\ loads = 0

NextLoaderAny == Load

SpecLoaderAny == InitLoaderAnyRun /\ [][NextLoaderAny]_vars

-----------------------------------------------------------------------------
(* toolbar_editor.py: the ToolbarManager dialog over assets/actions.json *)

\* str(v)
StrOf(v) ==
    CASE v.t = "str"  -> v.s
      [] v.t = "None" -> <<"None">>
      [] v.t = "bool" -> (IF v.b THEN <<"True">> ELSE <<"False">>)
      [] v.t = "int"  -> <<"1">>

LowerToken(tok) ==
    CASE tok = "True" -> "true"
      [] tok = "False" -> "false"
      [] tok = "None" -> "none"
      [] tok = "Tool" -> "tool"
      [] tok = "Gone" -> "gone"
      [] tok = "Info" -> "info"
      [] tok = "S" -> "s"
      [] tok = "Toolbar Settings" -> "toolbar settings"
      [] OTHER -> tok

\* s.lower()
Lower(s) == [i \in DOMAIN s |-> LowerToken(s[i])]

\* the names that mark a divider: "---" and runs of one to five em dashes
EmDash == "(em dash)"
DividerNames == {<<"---">>} \cup {[i \in 1..n |-> EmDash] : n \in 1..5}
CanonicalDivider == <<EmDash, EmDash, EmDash>>

\* the text of every cell of a divider row: an up-down arrow, a space, "Divider"
DividerText == <<"(up-down arrow)", " ", "Divider">>

IsSettingsName(s) == Lower(Strip(s)) = <<"toolbar settings">>

FileOf(tools) == [exists |-> TRUE, valid |-> TRUE, tools |-> tools]

\* what an interrupted json.dump leaves behind
Truncated == [exists |-> TRUE, valid |-> FALSE, tools |-> <<>>]

Row(name, module, function, submenu, icon, enabled) ==
    [name |-> name, module |-> module, function |-> function, submenu |-> submenu,
     icon |-> icon, enabled |-> enabled]

\* a row of cells that all show the divider text; its last cell is no checkbox
DividerRow ==
    Row(DividerText, DividerText, DividerText, DividerText, DividerText, FALSE)

\* add_row(tool): the row that is appended to the table
add_row(tool) ==
    LET name == Get(tool, "name", PyStr(<<>>))
        module == Get(tool, "module", PyStr(<<>>))
        function == Get(tool, "function", PyStr(<<>>))
        submenu == Get(tool, "submenu", Get(CONFIG, "default_submenu", PyStr(<<"None">>)))
        icon == Get(tool, "icon",
                    Get(CONFIG, "default_icon", PyStr(<<"icons/bent_menu-burger.svg">>)))
        enabled == Get(tool, "enabled", PyBool(TRUE))
    IN  IF Strip(name.s) \in DividerNames
        THEN DividerRow
        ELSE Row(StrOf(name), StrOf(module), StrOf(function), StrOf(submenu), StrOf(icon),
                 Lower(StrOf(enabled)) \in {<<"true">>, <<"1">>})

\* the argument of add_row when the Add button calls it: {} (from tool or {})
NoTool == Record(Missing, Missing, Missing, Missing, Missing, Missing, Missing)

\* the argument add_divider hands to add_row
DividerTool ==
    Record(Missing, PyStr(CanonicalDivider), PyStr(<<>>), PyStr(<<>>), PyStr(<<>>),
           PyStr(<<>>), PyBool(FALSE))

RECURSIVE LoadRows(_, _)
\* the loop of load_tools over self.tools; an exception ends it with the rows so far
LoadRows(tools, rows) ==
    IF tools = <<>> THEN [rows |-> rows, error |-> FALSE]
    ELSE LET tool == Head(tools)
             name == Get(tool, "name", PyStr(<<>>))
         IN  IF name.t # "str"
             THEN [rows |-> rows, error |-> TRUE]                  \* .strip() on a non-str
             ELSE IF \/ tool.type = PyStr(<<"separator">>)
                     \/ Strip(name.s) \in DividerNames
                     \/ IsSettingsName(name.s)
             THEN LoadRows(Tail(tools), rows)
             ELSE LoadRows(Tail(tools), Append(rows, add_row(tool)))

\* load_tools: the rows of the table and whether the Load Error dialog is shown
load_tools(file) ==
    IF ~file.exists THEN [rows |-> <<>>, error |-> FALSE]
    ELSE IF ~file.valid THEN [rows |-> <<>>, error |-> TRUE]        \* json.load raises
    ELSE LoadRows(file.tools, <<>>)

\* one table row read back into a dict, with the divider text mapped to a separator
EntryOfRow(row) ==
    IF Strip(row.name) = DividerText
    THEN Record(PyStr(<<"separator">>), PyStr(CanonicalDivider), PyStr(<<>>), PyStr(<<>>),
                PyStr(Strip(row.submenu)), PyStr(Strip(row.icon)), PyBool(row.enabled))
    ELSE Record(Missing, PyStr(Strip(row.name)), PyStr(Strip(row.module)),
                PyStr(Strip(row.function)), PyStr(Strip(row.submenu)),
                PyStr(Strip(row.icon)), PyBool(row.enabled))

\* the second loop: type is "separator" for a divider name and removed otherwise
NormalizeType(entry) ==
    [entry EXCEPT !.type = IF Strip(entry.name.s) \in DividerNames
                           THEN PyStr(<<"separator">>) ELSE Missing]

\* the entries for which the import check shows a dialog
ImportErrors(tools) ==
    SelectSeq(tools, LAMBDA e :
        /\ e.type # PyStr(<<"separator">>)
        /\ Strip(e.module.s) # <<>> /\ Strip(e.function.s) # <<>>
        /\ ~Lookup(PyStr(Strip(e.module.s)), PyStr(Strip(e.function.s))).ok)

SettingsRecord ==
    Record(Missing, PyStr(<<"Toolbar Settings">>), PyStr(<<"Main_Toolbar.toolbar_editor">>),
           PyStr(<<"edit_toolbar_json">>), PyStr(<<>>),
           Get(CONFIG, "default_icon", PyStr(<<"icons/bent_menu-burger.svg">>)),
           PyBool(TRUE))

EnsureNothing(tools) == tools

\* the "Toolbar Settings" record is appended unless an entry carries that name
EnsureToolbarSettings(tools) ==
    IF \E i \in DOMAIN tools : IsSettingsName(tools[i].name.s)
    THEN tools ELSE Append(tools, SettingsRecord)

\* the list that save_tools hands to json.dump
ToolsOfTable(rows) ==
    EnsureToolbarSettings([i \in DOMAIN rows |-> NormalizeType(EntryOfRow(rows[i]))])

BackupKeepsOld(file, bak) == bak

\* os.rename(self.path, backup_path) when the file exists: the new content of the .bak
Backup(file, bak) == IF file.exists THEN file ELSE bak

Faults == {"none", "rename", "open", "dump"}

ReachedAlways(f) == TRUE

\* control reaches the statements after the with block only if nothing raised before
Reached(f) == f = "none"

\* the two files after the write of save_tools, f being the call that raises
Write(file, bak, tools, f) ==
    CASE f = "rename" -> [file |-> file, bak |-> bak]
      [] f = "open"   -> [file |-> NoActions, bak |-> Backup(file, bak)]
      [] f = "dump"   -> [file |-> Truncated, bak |-> Backup(file, bak)]
      [] f = "none"   -> [file |-> FileOf(tools), bak |-> Backup(file, bak)]

Dialog(kind) == [kind |-> kind]

save_tools(f) ==
    LET tools == ToolsOfTable(table)
        disk == Write(actions_json, actions_bak, tools, f)
        r == _refresh_menu(menubar, addon_actions)
    IN  /\ actions_json' = disk.file
        /\ actions_bak' = disk.bak
        /\ menubar' = IF Reached(f) THEN r.bar ELSE menubar
        /\ refreshes' = IF Reached(f) THEN refreshes + 1 ELSE refreshes
        /\ dialogs' = dialogs \o [i \in DOMAIN ImportErrors(tools) |-> Dialog("import error")]
                         \o <<IF Reached(f) /\ ~r.raised
                              THEN Dialog("saved") ELSE Dialog("Save Error")>>
        /\ saves' = saves + 1
        /\ fault' = f
        /\ saved' = IF f = "none" THEN FileOf(tools) ELSE saved
        /\ UNCHANGED <<CONFIG, table, editor, windowTitle, opens, edits, macMenu,
                       addon_actions, raised, lastCall>>

\* open_toolbar_editor: ToolbarManager(mw), then the modal dlg.exec_()
open_toolbar_editor ==
    /\ opens' = opens + 1
    /\ IF CONFIG.toolbar_title.t = "missing"
       THEN /\ editor' = "failed"                          \* KeyError in __init__
            /\ UNCHANGED <<windowTitle, table, dialogs, edits>>
       ELSE LET l == load_tools(actions_json)
            IN  /\ editor' = "open"
                /\ windowTitle' = StrOf(CONFIG.toolbar_title)
                /\ table' = l.rows
                /\ dialogs' = dialogs \o (IF l.error THEN <<Dialog("Load Error")>> ELSE <<>>)
                /\ edits' = 0
    /\ UNCHANGED <<CONFIG, actions_json, actions_bak, saves, fault, macMenu, saved>>

\* add_mac_top_menu: the names it imports from Run_add_ons and utils are not defined
add_mac_top_menu ==
    /\ macMenu' = [ran |-> TRUE, raised |-> TRUE,
                   title |-> Get(CONFIG, "toolbar_title", PyStr(<<"MyAddon">>)).s]
    /\ UNCHANGED <<CONFIG, actions_json, actions_bak, table, editor, windowTitle, dialogs,
                   opens, edits, saves, fault, saved>>

-----------------------------------------------------------------------------
(* The files and the user's edits that are explored *)

EditorFiles ==
    { NoActions,
      FileOf(<< Record(Missing, PyStr(<<"Tool">>), PyStr(<<"mods.ok">>), PyStr(<<"run">>),
                       PyStr(<<"S">>), PyStr(<<"x">>), PyBool(TRUE)) >>),
      FileOf(<< Record(Missing, PyStr(<<"Tool">>), PyStr(<<"mods.ok">>), PyStr(<<"run">>),
                       PyStr(<<"S">>), PyStr(<<"x">>), PyBool(TRUE)),
                Record(Missing, PyStr(<<"Info">>), PyStr(<<"mods.ok">>), PyStr(<<"run">>),
                       PyStr(<<>>), PyNone, PyBool(FALSE)) >>),
      FileOf(<< Record(Missing, PyStr(<<"Toolbar Settings">>), PyStr(<<"mods.ok">>),
                       PyStr(<<"run">>), PyStr(<<"S">>), PyStr(<<"x">>), PyBool(FALSE)),
                Record(Missing, PyStr(<<"Tool">>), PyStr(<<"mods.ok">>), PyStr(<<"run">>),
                       Missing, PyStr(<<"x">>), PyBool(TRUE)) >>),
      FileOf(<< Record(PyStr(<<"separator">>), PyStr(CanonicalDivider), PyStr(<<>>),
                       PyStr(<<>>), PyStr(<<>>), PyStr(<<>>), PyBool(FALSE)),
                Record(PyStr(<<"label">>), PyStr(<<"Info">>), Missing, Missing,
                       PyStr(<<"S">>), Missing, Missing) >>),
      FileOf(<< Record(Missing, PyStr(<<"Gone">>), PyStr(<<"mods.missing">>),
                       PyStr(<<"run">>), PyStr(<<>>), PyStr(<<"x">>), PyBool(TRUE)) >>),
      FileOf(<< Record(Missing, PyNone, PyStr(<<"mods.ok">>), PyStr(<<"run">>),
                       PyStr(<<>>), PyStr(<<"x">>), PyBool(TRUE)) >>) }

\* the texts the user types into a cell
CellTexts ==
    [name |-> {<<"toolbar settings">>},
     module |-> {<<"mods.missing">>}]

InitEditorRun ==
    /\ InitRegistry /\ InitPair /\ InitIcon /\ InitDupes /\ InitWrap /\ InitDelete
    /\ tools_json = [exists |-> TRUE, tools |-> <<Record(Missing, PyStr(<<"Tool">>),
                 PyStr(<<"mods.ok">>), PyStr(<<"run">>), PyStr(<<>>), PyNone, PyBool(TRUE))>>]
    /\ menuTools = <<>>
    /\ submenu_lookup = <<>>
    /\ shown = <<>>
    /\ loadRaised = FALSE
    /\ loads = 0
    /\ CONFIG \in {Config(PyStr(<<"Custom Tools">>)), Config(Missing)}
    /\ actions_json \in EditorFiles
    /\ actions_bak = NoActions
    /\ table = <<>>
    /\ editor = "closed"
    /\ windowTitle = <<>>
    /\ dialogs = <<>>
    /\ opens = 0
    /\ edits = 0
    /\ saves = 0
    /\ fault = "none"
    /\ macMenu = NotRun
    /\ saved = NoActions

Untouched == UNCHANGED <<registryVars, pairVars, iconVars, loaderVars, dupesVars, wrapVars, deleteVars>>

OpenEditor ==
    /\ editor # "open" /\ opens < MaxOpens
    /\ open_toolbar_editor
    /\ Untouched

\* an edit of the table by one of the buttons or in a cell
Edited(rows) ==
    /\ editor = "open" /\ edits < MaxEdits
    /\ table' = rows
    /\ edits' = edits + 1
    /\ UNCHANGED <<CONFIG, actions_json, actions_bak, editor, windowTitle, dialogs, opens,
                   saves, fault, macMenu, saved>>
    /\ Untouched

AddRow == Len(table) < MaxRows /\ Edited(Append(table, add_row(NoTool)))

AddDivider == Len(table) < MaxRows /\ Edited(Append(table, add_row(DividerTool)))

DeleteRow ==
    \E i \in DOMAIN table :
        Edited([j \in 1..(Len(table) - 1) |-> IF j < i THEN table[j] ELSE table[j + 1]])

\* the divider cells are not editable
EditCell ==
    \E i \in DOMAIN table, key \in DOMAIN CellTexts :
        /\ table[i] # DividerRow
        /\ \E text \in CellTexts[key] : Edited([table EXCEPT ![i][key] = text])

ToggleEnabled ==
    \E i \in DOMAIN table :
        /\ table[i] # DividerRow
        /\ Edited([table EXCEPT ![i].enabled = ~@])

Save ==
    /\ editor = "open" /\ saves < MaxSaves
    /\ \E f \in Faults :
          /\ f = "rename" => actions_json.exists
          /\ save_tools(f)
    /\ UNCHANGED <<pairVars, iconVars, loaderVars, dupesVars, wrapVars, deleteVars>>

CloseEditor ==
    /\ editor = "open"
    /\ editor' = "closed"
    /\ table' = <<>>
    /\ UNCHANGED <<CONFIG, actions_json, actions_bak, windowTitle, dialogs, opens, edits,
                   saves, fault, macMenu, saved>>
    /\ Untouched

\* main_window_did_init, fired while no dialog is open: the hooks in the order in
\* which __init__.py appended them
Start ==
    /\ editor # "open" /\ loads < MaxStarts
    /\ load_tools_from_config
    /\ add_mac_top_menu
    /\ UNCHANGED <<registryVars, pairVars, iconVars, dupesVars, wrapVars, deleteVars>>

NextEditor ==
    \/ OpenEditor \/ AddRow \/ AddDivider \/ DeleteRow \/ EditCell \/ ToggleEnabled
    \/ Save \/ CloseEditor \/ Start

SpecEditor == InitEditorRun /\ [][NextEditor]_vars

-----------------------------------------------------------------------------
(* A run of the editor in which the user only opens the dialog and presses Save *)

InitSavesRun == InitEditorRun /\ CONFIG = Config(PyStr(<<"Custom Tools">>))

SaveAttempt ==
    /\ editor = "open" /\ saves < MaxAttempts
    /\ \E f \in Faults :
          /\ f = "rename" => actions_json.exists
          /\ save_tools(f)
    /\ UNCHANGED <<pairVars, iconVars, loaderVars, dupesVars, wrapVars, deleteVars>>

NextSaves == OpenEditor \/ SaveAttempt

SpecSaves == InitSavesRun /\ [][NextSaves]_vars

-----------------------------------------------------------------------------
(* modules/IMG_dupes: run_img_dupes_script *)

\* The content of a field is a sequence of pieces: a run of text without an image
\* tag, a tag <img ... src="s" ...>, or the same tag written <IMG ...>.
Piece(kind, src) == [kind |-> kind, src |-> src]
SomeText == Piece("text", "")
Img(src) == Piece("img", src)
ImgUpper(src) == Piece("IMG", src)

\* the content of a field the note does not have
NoField == <<Piece("absent", "")>>

\* of the eight field names that are scanned, the ones the notes here may have
ScannedFields == {"Text", "Extra"}

Note(tagged, text, extra) == [tagged |-> tagged, Text |-> text, Extra |-> extra]

\* raw.strip().replace("\\_", "_"), prefixed with "tag:" unless it starts with it
normalize_tag_input(raw) ==
    LET stripped == Strip(raw)
        tag == [i \in DOMAIN stripped |-> IF stripped[i] = "\\_" THEN "_" ELSE stripped[i]]
    IN  IF StartsWith(tag, <<"tag:">>) THEN tag ELSE <<"tag:">> \o tag

RECURSIVE TaggedFrom(_, _)
TaggedFrom(notes, nid) ==
    IF nid > Len(notes) THEN <<>>
    ELSE (IF notes[nid].tagged THEN <<nid>> ELSE <<>>) \o TaggedFrom(notes, nid + 1)

\* mw.col.find_notes(query) in a collection whose only tag is "dupe"
find_notes(notes, q) ==
    IF q = <<"tag:", "dupe">> THEN TaggedFrom(notes, 1) ELSE <<>>

\* re.findall(..., flags=re.IGNORECASE): the sources of all tags, in either case
FindAll(original) ==
    LET tags == SelectSeq(original, LAMBDA c : c.kind \in {"img", "IMG"})
    IN  [i \in DOMAIN tags |-> tags[i].src]

RECURSIVE Kept(_, _)
\* the loop over re.split: split and search are case-sensitive, so only a lower-case
\* tag is a chunk of its own; a later chunk with a source already seen is dropped
Kept(chunks, seen) ==
    IF chunks = <<>> THEN <<>>
    ELSE LET c == Head(chunks)
         IN  IF c.kind = "img"
             THEN IF c.src \notin seen
                  THEN <<c>> \o Kept(Tail(chunks), seen \cup {c.src})
                  ELSE Kept(Tail(chunks), seen)
             ELSE <<c>> \o Kept(Tail(chunks), seen)

\* the new content of one scanned field
CleanField(original) ==
    LET imgs == FindAll(original)
    IN  IF original = NoField THEN original
        ELSE IF imgs = <<>> \/ Cardinality(Range(imgs)) = Len(imgs) THEN original
        ELSE Kept(original, {})

CleanNote(note) ==
    [note EXCEPT !.Text = CleanField(note.Text), !.Extra = CleanField(note.Extra)]

Ui(call, thread) == [call |-> call, thread |-> thread]

\* run_img_dupes_script up to the point where the operation is handed to QueryOp
run_img_dupes_script(accepted, text) ==
    LET q == normalize_tag_input(text)
        found == find_notes(col, q)
    IN  /\ runs' = runs + 1
        /\ prompt' = Prompt(accepted, text)
        /\ IF ~accepted
           THEN /\ ui' = Append(ui, Ui("QInputDialog", "main"))
                /\ UNCHANGED <<query, finds, note_ids, pc, cursor, removed_nids>>
           ELSE IF Strip(q) = <<>>
           THEN /\ ui' = Append(ui, Ui("QInputDialog", "main"))
                /\ query' = q
                /\ UNCHANGED <<finds, note_ids, pc, cursor, removed_nids>>
           ELSE /\ query' = q
                /\ finds' = finds + 1
                /\ note_ids' = found
                /\ IF found = <<>>
                   THEN /\ ui' = ui \o <<Ui("QInputDialog", "main"), Ui("showInfo", "main")>>
                        /\ UNCHANGED <<pc, cursor, removed_nids>>
                   ELSE /\ ui' = Append(ui, Ui("QInputDialog", "main"))
                        /\ pc' = "working"
                        /\ cursor' = 1
                        /\ removed_nids' = <<>>
        /\ UNCHANGED col

\* one iteration of the loop of process_notes, on the worker thread of QueryOp;
\* flushFails says whether note.flush() raises
process_note(flushFails) ==
    LET nid == note_ids[cursor]
        note == col[nid]
        cleaned == CleanNote(note)
        changed == cleaned # note
    IN  /\ IF changed /\ ~flushFails
           THEN col' = [col EXCEPT ![nid] = cleaned] /\ removed_nids' = Append(removed_nids, nid)
           ELSE UNCHANGED <<col, removed_nids>>
        /\ ui' = IF changed /\ flushFails THEN Append(ui, Ui("showWarning", "worker")) ELSE ui
        /\ cursor' = cursor + 1
        /\ pc' = IF cursor = Len(note_ids) THEN "finished" ELSE "working"
        /\ UNCHANGED <<query, note_ids, finds, runs, prompt>>

\* the completion callback, on the main thread; the list of ids it writes to a file
\* when more than 45 notes were cleaned is beyond MaxNotes
on_success ==
    /\ ui' = Append(ui, Ui("showInfo", "main"))
    /\ pc' = "idle"
    /\ UNCHANGED <<col, query, note_ids, cursor, removed_nids, finds, runs, prompt>>

-----------------------------------------------------------------------------
(* The collections and prompts that are explored *)

FieldContents ==
    { <<SomeText>>,
      <<Img("a"), SomeText, Img("a")>>,
      <<Img("a"), ImgUpper("a")>>,
      <<Img("a"), Img("b")>> }

Notes ==
    {Note(tagged, text, extra) :
        tagged \in BOOLEAN, text \in FieldContents,
        extra \in {NoField, <<Img("b"), Img("b"), SomeText>>}}

PromptTexts == {<<>>, <<" ">>, <<"dupe">>, <<"tag:", "dupe">>, <<"other">>}

InitDupesRun ==
    /\ InitRegistry /\ InitPair /\ InitIcon /\ InitLoader /\ InitEditor /\ InitWrap /\ InitDelete
    /\ col \in UNION {[1..n -> Notes] : n \in 0..MaxNotes}
    /\ pc = "idle"
    /\ query = <<>>
    /\ note_ids = <<>>
    /\ cursor = 0
    /\ removed_nids = <<>>
    /\ ui = <<>>
    /\ finds = 0
    /\ runs = 0
    /\ prompt = NoPrompt

Others == UNCHANGED <<registryVars, pairVars, iconVars, loaderVars, editorVars, wrapVars, deleteVars>>

RunScript ==
    /\ pc = "idle" /\ runs < MaxRuns
    /\ \E accepted \in BOOLEAN, text \in PromptTexts : run_img_dupes_script(accepted, text)
    /\ Others

ProcessNote ==
    /\ pc = "working"
    /\ \E flushFails \in BOOLEAN : process_note(flushFails)
    /\ Others

OnSuccess ==
    /\ pc = "finished"
    /\ on_success
    /\ Others

NextDupes == RunScript \/ ProcessNote \/ OnSuccess

SpecDupes == InitDupesRun /\ [][NextDupes]_vars

-----------------------------------------------------------------------------
(* keyed_html_wrap: the editor shortcuts *)

MaxEvents == 4

ReloadKey == <<"Cmd+Alt+R">>

(* A QShortcut on editor.web: its key sequence and what activating it runs: *)
(* wrap_selected_text with the template bound at creation (lambda           *)
(* t=template), or reload_config.                                            *)
QShortcut(key, target, template) == [key |-> key, target |-> target, template |-> template]

register_shortcut(keybind, template) == QShortcut(keybind, "wrap_selected_text", template)

reload_shortcut == QShortcut(ReloadKey, "reload_config", <<>>)

RegisterAll(items) == [i \in DOMAIN items |-> register_shortcut(items[i].key, items[i].template)]

(* on_editor_did_init: CONFIG.get raises AttributeError when CONFIG is not  *)
(* a dict, .items() when the "shortcuts" value is not a mapping; both raise *)
(* before the first QShortcut is created.                                   *)
on_editor_did_init(e) ==
    IF e \in EDITOR_SHORTCUTS_REGISTERED
    THEN /\ hookRaised' = FALSE
         /\ UNCHANGED <<shortcuts, EDITOR_SHORTCUTS_REGISTERED>>
    ELSE IF ~IsDict(CONFIG_wrap)
    THEN /\ hookRaised' = TRUE
         /\ UNCHANGED <<shortcuts, EDITOR_SHORTCUTS_REGISTERED>>
    ELSE LET configured == IF CONFIG_wrap.shortcuts = Missing
                           THEN Mapping(<<>>)
                           ELSE CONFIG_wrap.shortcuts
         IN  IF ~IsMapping(configured)
             THEN /\ hookRaised' = TRUE
                  /\ UNCHANGED <<shortcuts, EDITOR_SHORTCUTS_REGISTERED>>
             ELSE /\ shortcuts' = [shortcuts EXCEPT ![e] =
                         @ \o RegisterAll(configured.items) \o <<reload_shortcut>>]
                  /\ EDITOR_SHORTCUTS_REGISTERED' = EDITOR_SHORTCUTS_REGISTERED \cup {e}
                  /\ hookRaised' = FALSE

HasWeb(e) == e \in Editors

on_editor_did_load_note(e) ==
    IF HasWeb(e)
    THEN on_editor_did_init(e)
    ELSE /\ hookRaised' = FALSE
         /\ UNCHANGED <<shortcuts, EDITOR_SHORTCUTS_REGISTERED>>

Bold == <<"<b>", "{}", "</b>">>

Italic == <<"<i>", "{}", "</i>">>

Binding(key, template) == [key |-> key, template |-> template]

(* Contents of config.json at the time of a reload_config. *)
WrapFiles ==
    {Unreadable,
     PyDict(Missing),
     PyDict(Mapping(<<>>)),
     PyDict(Mapping(<<Binding(<<"Ctrl+B">>, Bold)>>)),
     PyDict(Mapping(<<Binding(<<"Ctrl+B">>, Italic)>>)),
     PyDict(Mapping(<<Binding(<<"Ctrl+B">>, Bold), Binding(<<"Ctrl+I">>, Italic)>>)),
     PyDict(PyList(<<>>)),
     PyList(<<>>)}

(* The module is imported (reload_config at line 52) with some config.json. *)
InitWrapRun ==
    /\ InitRegistry /\ InitPair /\ InitIcon /\ InitLoader /\ InitEditor /\ InitDupes
    /\ InitDelete
    /\ CONFIG_wrap \in {reload_config(f) : f \in WrapFiles}
    /\ EDITOR_SHORTCUTS_REGISTERED = {}
    /\ shortcuts = [e \in Editors |-> <<>>]
    /\ touched = {}
    /\ hookRaised = FALSE
    /\ events = 0

NotWrap == UNCHANGED <<registryVars, pairVars, iconVars, loaderVars, editorVars, dupesVars,
                        deleteVars>>

EditorDidInit ==
    /\ events < MaxEvents
    /\ \E e \in Editors :
          /\ on_editor_did_init(e)
          /\ touched' = touched \cup {e}
    /\ events' = events + 1
    /\ UNCHANGED CONFIG_wrap
    /\ NotWrap

EditorDidLoadNote ==
    /\ events < MaxEvents
    /\ \E e \in Editors :
          /\ on_editor_did_load_note(e)
          /\ touched' = touched \cup {e}
    /\ events' = events + 1
    /\ UNCHANGED CONFIG_wrap
    /\ NotWrap

(* Cmd+Alt+R on an editor that holds the reload shortcut. *)
ReloadConfig ==
    /\ events < MaxEvents
    /\ \E e \in Editors : \E i \in DOMAIN shortcuts[e] : shortcuts[e][i].target = "reload_config"
    /\ \E f \in WrapFiles : CONFIG_wrap' = reload_config(f)
    /\ events' = events + 1
    /\ hookRaised' = FALSE
    /\ UNCHANGED <<EDITOR_SHORTCUTS_REGISTERED, shortcuts, touched>>
    /\ NotWrap

NextWrap == EditorDidInit \/ EditorDidLoadNote \/ ReloadConfig

SpecWrap == InitWrapRun /\ [][NextWrap]_vars

-----------------------------------------------------------------------------
(* Delete_unused_notes: delete_empty_note_types, in its two variants *)

MaxModels == 3

MaxDeletes == 2

(* A note type: its id, its name and what the COUNT() query over cards returns for it *)
Model(id, name, count) == [id |-> id, name |-> name, count |-> count]

Ids(ms) == {ms[i].id : i \in DOMAIN ms}

\* col.models.rem(model)
rem(ms, model) == SelectSeq(ms, LAMBDA m : m.id # model.id)

RECURSIVE RemEmpty(_, _)
\* the loop of the first variant over the list that col.models.all() returned
RemEmpty(all, ms) ==
    IF all = <<>> THEN ms
    ELSE RemEmpty(Tail(all), IF Head(all).count = 0 THEN rem(ms, Head(all)) ELSE ms)

\* modules/Delete_unused_notes: delete_empty_note_types()
delete_empty_note_types ==
    /\ models' = RemEmpty(models, models)
    /\ delUi' = Append(delUi, "showInfo: Deleted")
    /\ delRaised' = FALSE

\* to_delete_names: the names of the unprotected note types without cards, in order
to_delete_names(ms, protected) ==
    LET chosen == SelectSeq(ms, LAMBDA m : m.name \notin protected /\ m.count = 0)
    IN  [i \in DOMAIN chosen |-> chosen[i].name]

\* by_name = {m.get("name", ""): m for m in col.models.all()}: a later note type
\* replaces an earlier one of the same name
by_name(ms, name) ==
    LET at == {i \in DOMAIN ms : ms[i].name = name}
    IN  ms[CHOOSE i \in at : \A j \in at : j <= i]

RECURSIVE RemNamed(_, _, _, _)
\* the loop over to_delete_names; the dict by_name was built before the loop, from
\* all.  remFails says whether col.models.rem raises for a note type that an earlier
\* iteration removed.
RemNamed(names, all, ms, remFails) ==
    IF names = <<>> THEN [models |-> ms, raised |-> FALSE]
    ELSE LET m == by_name(all, Head(names))
         IN  IF m.id \notin Ids(ms) /\ remFails
             THEN [models |-> ms, raised |-> TRUE]
             ELSE RemNamed(Tail(names), all, rem(ms, m), remFails)

\* modules/Not using:working/Delete_unused_notes: delete_empty_note_types(), with
\* the configuration that _load_delete_cfg returns and the answer to askUser
delete_empty_note_types_cfg(protected, confirm, answer, remFails) ==
    LET names == to_delete_names(models, protected)
        r == RemNamed(names, models, models, remFails)
    IN  IF names = <<>>
        THEN /\ delUi' = Append(delUi, "showInfo: No note types")
             /\ delRaised' = FALSE
             /\ UNCHANGED models
        ELSE IF confirm /\ ~answer
        THEN /\ delUi' = delUi \o <<"askUser", "showInfo: Deletion cancelled">>
             /\ delRaised' = FALSE
             /\ UNCHANGED models
        ELSE /\ models' = r.models
             /\ delRaised' = r.raised
             /\ delUi' = delUi \o (IF confirm THEN <<"askUser">> ELSE <<>>)
                               \o (IF r.raised THEN <<>> ELSE <<"showInfo: Deleted">>)

ModelNames == {<<"Basic">>, <<"Cloze">>}

(* Collections of up to MaxModels note types; a note type's id is its position. *)
Collections ==
    UNION {{[i \in 1..n |-> Model(i, name[i], count[i])] :
               name \in [1..n -> ModelNames], count \in [1..n -> {0, 1}]} : n \in 0..MaxModels}

InitDeleteRun ==
    /\ InitRegistry /\ InitPair /\ InitIcon /\ InitLoader /\ InitEditor /\ InitDupes /\ InitWrap
    /\ models \in Collections
    /\ lastDelete = NoDelete
    /\ delUi = <<>>
    /\ delRaised = FALSE
    /\ dels = 0

NotDelete == UNCHANGED <<registryVars, pairVars, iconVars, loaderVars, editorVars, dupesVars,
                         wrapVars>>

DeleteEmpty ==
    /\ dels < MaxDeletes
    /\ delete_empty_note_types
    /\ lastDelete' = [variant |-> "plain", protected |-> {}, confirm |-> FALSE, answer |-> FALSE]
    /\ dels' = dels + 1
    /\ NotDelete

DeleteEmptyConfigured ==
    /\ dels < MaxDeletes
    /\ \E protected \in SUBSET ModelNames, confirm \in BOOLEAN, answer \in BOOLEAN,
          remFails \in BOOLEAN :
          /\ delete_empty_note_types_cfg(protected, confirm, answer, remFails)
          /\ lastDelete' = [variant |-> "configured", protected |-> protected,
                            confirm |-> confirm, answer |-> answer]
    /\ dels' = dels + 1
    /\ NotDelete

NextDelete == DeleteEmpty \/ DeleteEmptyConfigured

SpecDelete == InitDeleteRun /\ [][NextDelete]_vars

-----------------------------------------------------------------------------
(* Reading a menu tree *)

IsMenu(a) == a.kind = "menu"
IsAction(a) == a.kind = "action"

\* the menus this add-on put in the menubar
AddonMenus(bar) == SelectSeq(bar, LAMBDA m : m.owner = "addon")

Titles(menus) == [i \in DOMAIN menus |-> menus[i].title]

RECURSIVE NoDuplicateSiblings(_)
\* no two menu nodes among children share a title, nor below any of them
NoDuplicateSiblings(children) ==
    /\ \A i, j \in DOMAIN children :
          (i < j /\ IsMenu(children[i]) /\ IsMenu(children[j]))
             => children[i].title # children[j].title
    /\ \A i \in DOMAIN children :
          IsMenu(children[i]) => NoDuplicateSiblings(children[i].children)

RECURSIVE NodePaths(_)
\* the title sequences that lead from children to a menu node
NodePaths(children) ==
    UNION { {<<children[i].title>>}
               \cup { <<children[i].title>> \o q : q \in NodePaths(children[i].children) }
            : i \in {k \in DOMAIN children : IsMenu(children[k])} }

RECURSIVE CountNodes(_)
\* number of menu nodes below children
CountNodes(children) ==
    IF children = <<>> THEN 0
    ELSE (IF IsMenu(Head(children)) THEN 1 + CountNodes(Head(children).children) ELSE 0)
         + CountNodes(Tail(children))

NoNode == [kind |-> "none"]

RECURSIVE NodeAt(_, _)
\* the menu node reached from children by walking the titles segs
NodeAt(children, segs) ==
    LET i == FirstIndex(children, LAMBDA a : IsMenu(a) /\ a.title = Head(segs))
    IN  IF i = 0 THEN NoNode
        ELSE IF Len(segs) = 1 THEN children[i]
        ELSE NodeAt(children[i].children, Tail(segs))

ItemsOf(node) == SelectSeq(node.children, IsAction)

\* the title sequence of the node a registry key names, from the menubar down
Segments(submenu_path) ==
    IF submenu_path = <<>> THEN <<toolbar_title>> ELSE Split(submenu_path)

Prefixes(segs) == {SubSeq(segs, 1, k) : k \in 1..Len(segs)}

Keys(actions) == {actions[i].path : i \in DOMAIN actions}

\* the list stored under key, [] when the key is absent
Stored(actions, key) ==
    IF key \in Keys(actions)
    THEN actions[CHOOSE i \in DOMAIN actions : actions[i].path = key].actions
    ELSE <<>>

\* every entry obeys the contract of register: an invocable callback, an icon that is
\* a resource reference (str) or None
ContractKept(actions) ==
    \A i \in DOMAIN actions : \A k \in DOMAIN actions[i].actions :
        LET e == actions[i].actions[k]
        IN  Callable(e.callback) /\ e.icon.t \in {"None", "str"}

\* the menu item an entry is rendered as
Rendered(e) ==
    Item(e.name, e.callback, e.enabled,
         IF e.icon.t = "str" /\ e.icon.s # <<>> THEN resolve_icon_path(e.icon).s ELSE <<>>)

RECURSIVE Flatten(_)
Flatten(seqs) == IF seqs = <<>> THEN <<>> ELSE Head(seqs) \o Flatten(Tail(seqs))

\* the items expected in the node segs: the entries of every key naming that node,
\* key after key in dict order
ExpectedItems(actions, segs) ==
    LET mine == SelectSeq(actions, LAMBDA kv : Segments(kv.path) = segs)
    IN  Flatten([i \in DOMAIN mine |->
                   [k \in DOMAIN mine[i].actions |-> Rendered(mine[i].actions[k])]])

-----------------------------------------------------------------------------
(* Claims on the registry *)

\* C1: after any sequence of register_addon_tool calls no parent, the menubar
\* included, holds two child menus with one title, and (for calls that obey the
\* contract of register) the menu nodes of the add-on are exactly the prefixes of
\* the registered paths, one node each.
C1_OneNodePerPrefix ==
    /\ NoDuplicateSiblings(menubar)
    /\ ContractKept(addon_actions) =>
          LET want == UNION {Prefixes(Segments(k)) : k \in Keys(addon_actions)}
          IN  /\ NodePaths(AddonMenus(menubar)) = want
              /\ CountNodes(AddonMenus(menubar)) = Cardinality(want)

\* two keys that share a prefix, and a key registered twice, all rendered
C1_Witness ==
    /\ refreshes = 3
    /\ ContractKept(addon_actions)
    /\ {<<"A", "::", "B">>, <<"A", "::", "B", "::", "A">>} \subseteq Keys(addon_actions)
    /\ Len(Stored(addon_actions, <<"A", "::", "B">>)) = 2
    /\ CountNodes(menubar) = 6

\* C2: for every registered path the node reached by walking its segments holds one
\* item per entry registered under the path, in registration order, and two entries
\* with one name under one path both appear.
C2_ItemsInRegistrationOrder ==
    ContractKept(addon_actions) =>
        \A k \in Keys(addon_actions) :
            LET node == NodeAt(menubar, Segments(k))
            IN  /\ node # NoNode
                /\ node.owner = "addon"
                /\ ItemsOf(node) = ExpectedItems(addon_actions, Segments(k))

\* the same name registered twice under A::B, with different callbacks
C2_Witness ==
    /\ ContractKept(addon_actions)
    /\ LET l == Stored(addon_actions, <<"A", "::", "B">>)
       IN  /\ Len(l) = 2
           /\ l[1].name = l[2].name
           /\ l[1].callback = "cb2" /\ l[2].callback = "cb1"
    /\ Len(ItemsOf(NodeAt(menubar, <<<<"A">>, <<"B">>>>))) = 2

\* C3: a call appends exactly one entry at the end of the list of its path (None
\* counting as the root path ""), leaves every other list and the order of the keys
\* alone, and runs one rebuild; nothing is ever removed or reordered.
C3_RegisterAppendsOne ==
    [][ refreshes' # refreshes =>
          LET c == lastCall'
              key == IF c.submenu_name.t = "str" THEN c.submenu_name.s ELSE <<>>
              old == addon_actions
              new == addon_actions'
          IN  /\ c.made
              /\ refreshes' = refreshes + 1
              /\ Keys(new) = Keys(old) \cup {key}
              /\ Len(new) = Cardinality(Keys(new))
              /\ \A i \in DOMAIN old : new[i].path = old[i].path
              /\ \A p \in Keys(old) \ {key} : Stored(new, p) = Stored(old, p)
              /\ Stored(new, key) =
                    Append(Stored(old, key), Entry(c.name, c.callback, c.icon, c.enabled))
      ]_vars

\* a call without a path, after the root path and another path got their lists
C3_Witness ==
    /\ lastCall.made /\ lastCall.submenu_name = PyNone
    /\ Len(addon_actions) = 2
    /\ Len(Stored(addon_actions, <<>>)) = 2

\* C4: a rebuild removes only menus this add-on materialized; every menu the host
\* (or another add-on) owns stays in the menubar.
C4_HostMenusStay ==
    \A i \in DOMAIN HostMenubar : HostMenubar[i] \in Range(menubar)

\* C5: the rebuild never raises, and every entry that can be rendered is rendered
\* although another entry fails.
C5_RebuildNeverRaises ==
    /\ ~raised
    /\ \A k \in Keys(addon_actions) :
          LET good == SelectSeq(Stored(addon_actions, k),
                                LAMBDA e : Callable(e.callback) /\ e.icon.t \in {"None", "str"})
              node == NodeAt(menubar, Segments(k))
          IN  good # <<>> =>
                 /\ node # NoNode
                 /\ \A n \in DOMAIN good : Rendered(good[n]) \in Range(ItemsOf(node))

-----------------------------------------------------------------------------
(* Claims on two runs *)

\* the two registries hold the same list under the same keys
SameMapping(a, b) == Keys(a) = Keys(b) /\ \A k \in Keys(a) : Stored(a, k) = Stored(b, k)

-----------------------------------------------------------------------------
(* Claims on resolve_icon_path *)

\* the priority chain as stated: only the leading ":assets/" marker is removed
StatedIconPath(path) ==
    IF path.t = "None" \/ path.s = <<>> THEN <<>>
    ELSE IF path.s[1] = "/" THEN path.s
    ELSE IF StartsWith(path.s, <<":", "assets", "/">>)
         THEN Join2(addon_dir \o <<"/", "assets">>, SubSeq(path.s, 4, Len(path.s)))
    ELSE IF path.s[1] = ":" THEN path.s
    ELSE IF StartsWith(path.s, <<"assets", "/">>) \/ StartsWith(path.s, <<"icons", "/">>)
         THEN addon_dir \o <<"/">> \o path.s
    ELSE addon_dir \o <<"/", "icons", "/">> \o path.s

\* C8: resolve_icon_path applies the first matching rule of the chain: "" for
\* empty/None, an absolute path unchanged, ":assets/" + rest gives
\* <plugin root>/assets/rest with only the leading marker removed, another ":"
\* reference unchanged, "assets/..." and "icons/..." under the plugin root, anything
\* else under <plugin root>/icons.
C8_IconPriorityChain ==
    iconOut.called => (~iconOut.raised /\ iconOut.s = StatedIconPath(iconIn))

-----------------------------------------------------------------------------
(* Claims on the loader *)

\* the custom menu the last run of the loader added to the Tools menu
CustomMenu == menuTools[Len(menuTools)]

RECURSIVE WiredCount(_)
\* number of items below children that have a callback connected
WiredCount(children) ==
    IF children = <<>> THEN 0
    ELSE (CASE IsMenu(Head(children)) -> WiredCount(Head(children).children)
            [] IsAction(Head(children)) -> IF Head(children).callback # "" THEN 1 ELSE 0
            [] OTHER -> 0)
         + WiredCount(Tail(children))

RECURSIVE SeparatorCount(_)
\* number of dividers below children
SeparatorCount(children) ==
    IF children = <<>> THEN 0
    ELSE (CASE IsMenu(Head(children)) -> SeparatorCount(Head(children).children)
            [] Head(children).kind = "separator" -> 1
            [] OTHER -> 0)
         + SeparatorCount(Tail(children))

\* a string field of a record, stripped; "" when the key is absent
Field(entry, key) == Strip(Get(entry, key, PyStr(<<>>)).s)

KindOf(entry) ==
    IF Field(entry, "type") \in {<<"separator">>, <<"label">>}
    THEN Field(entry, "type")[1] ELSE "tool"

\* a functional record with a name, a module and a function, an icon that is a string
\* or null and an enabled flag that is a boolean
WellFormed(entry) ==
    /\ KindOf(entry) = "tool"
    /\ Field(entry, "name") # <<>>
    /\ entry.module.t = "str" /\ entry.module.s # <<>>
    /\ entry.function.t = "str" /\ entry.function.s # <<>>
    /\ entry.icon.t \in {"missing", "None", "str"}
    /\ entry.enabled.t \in {"missing", "bool"}

\* the module is importable and the name is the name of a function of the module
Resolves(entry) ==
    Lookup(entry.module, entry.function).ok
       /\ Callable(Lookup(entry.module, entry.function).callback)

\* the module cannot be imported or has no attribute of that name
LookupFails(entry) ==
    WellFormed(entry) /\ ~Lookup(entry.module, entry.function).ok

\* the node of the custom menu that the submenu of a record names
SubmenuNode(entry) ==
    IF Field(entry, "submenu") = <<>> THEN CustomMenu
    ELSE NodeAt(CustomMenu.children, <<Field(entry, "submenu")>>)

\* C9: after a load the number of callback-wired items equals the number of
\* well-formed functional records whose lookup succeeds; every separator record is a
\* divider and every label record a disabled item without callback in its submenu;
\* so one separator, one label and one resolvable tool give exactly one wired item.
C9_OneWiredItemPerResolvedTool ==
    (loads >= 1 /\ ~loadRaised) =>
        LET tools == tools_json.tools
        IN  /\ WiredCount(<<CustomMenu>>) =
                  Cardinality({i \in DOMAIN tools : WellFormed(tools[i]) /\ Resolves(tools[i])})
            /\ SeparatorCount(<<CustomMenu>>) =
                  Cardinality({i \in DOMAIN tools : KindOf(tools[i]) = "separator"})
            /\ \A i \in DOMAIN tools :
                  KindOf(tools[i]) = "label" =>
                     /\ SubmenuNode(tools[i]) # NoNode
                     /\ Item(IF Field(tools[i], "name") # <<>> THEN Field(tools[i], "name")
                             ELSE <<"---">>, "", FALSE, <<>>)
                           \in Range(SubmenuNode(tools[i]).children)

\* a file of one separator, one label and one resolvable tool, loaded: one wired item
C9_Witness ==
    /\ loads = 1
    /\ Len(tools_json.tools) = 3
    /\ {KindOf(tools_json.tools[i]) : i \in 1..3} = {"separator", "label", "tool"}
    /\ \E i \in 1..3 : WellFormed(tools_json.tools[i]) /\ Resolves(tools_json.tools[i])
                          /\ tools_json.tools[i].enabled = PyBool(FALSE)
    /\ WiredCount(<<CustomMenu>>) = 1
    /\ SeparatorCount(<<CustomMenu>>) = 1

\* C10: a functional record whose module or function cannot be resolved is reported
\* once, adds nothing to the menu, and the other records are processed exactly as if
\* the record were absent from the file.
C10_FailedLookupAsIfAbsent ==
    loads >= 1 =>
        LET tools == tools_json.tools
            without == SelectSeq(tools, LAMBDA e : ~LookupFails(e))
        IN  /\ Len(SelectSeq(shown, LAMBDA m : m.kind = "import"))
                  = loads * (Len(tools) - Len(without))
            /\ CustomMenu = Loaded([exists |-> tools_json.exists, tools |-> without]).menu

\* a functional record that lacks a non-empty name, module or function
Incomplete(entry) ==
    /\ entry.type.t \in {"missing", "str"} /\ KindOf(entry) = "tool"
    /\ entry.name.t \in {"missing", "str"}
    /\ \/ Field(entry, "name") = <<>>
       \/ ~Truthy(Get(entry, "module", PyNone))
       \/ ~Truthy(Get(entry, "function", PyNone))

\* C11: a functional record without a non-empty name, module or function is skipped
\* silently: no dialog, no item, and the menu tree is what it is without the record
\* (no submenu node for the submenu it names); the later records are processed.
C11_IncompleteLeavesNoTrace ==
    (loads >= 1 /\ ~loadRaised) =>
        LET without == [exists |-> tools_json.exists,
                        tools |-> SelectSeq(tools_json.tools, LAMBDA e : ~Incomplete(e))]
        IN  /\ Len(shown) = loads * Len(Loaded(without).msgs)
            /\ CustomMenu = Loaded(without).menu

\* the record is an object whose type, name and submenu are strings or absent
Strippable(entry) ==
    \A key \in {"type", "name", "submenu"} : entry[key].t \in {"missing", "str"}

\* C12: whatever one record holds, the load ends without an uncaught error and every
\* other well-formed record of the file is rendered.
C12_NoRecordAbortsLoad ==
    loads >= 1 =>
        /\ ~loadRaised
        /\ WiredCount(<<CustomMenu>>) =
              Cardinality({i \in DOMAIN tools_json.tools :
                              /\ Strippable(tools_json.tools[i])
                              /\ WellFormed(tools_json.tools[i])
                              /\ Resolves(tools_json.tools[i])})

\* C13: a record of submenu A::B is rendered inside a node B that is a child of a
\* node A of the custom menu; records of A::B and A::C share the node A.
C13_SubmenuHierarchy ==
    (loads >= 1 /\ ~loadRaised) =>
        \A i \in DOMAIN tools_json.tools :
            LET e == tools_json.tools[i]
                node == NodeAt(CustomMenu.children, Split(Field(e, "submenu")))
            IN  (Strippable(e) /\ WellFormed(e) /\ Resolves(e) /\ Field(e, "submenu") # <<>>)
                   => /\ node # NoNode
                      /\ \E a \in Range(ItemsOf(node)) : a.text = Field(e, "name")

-----------------------------------------------------------------------------
(* The declaration editor *)

\* a functional record of the documented shape; the icon may be null and the submenu
\* may be left out
FunctionalRecord(e) ==
    /\ e.type = Missing
    /\ e.name.t = "str" /\ Strip(e.name.s) # <<>> /\ Strip(e.name.s) \notin DividerNames
    /\ e.module.t = "str" /\ e.module.s # <<>>
    /\ e.function.t = "str" /\ e.function.s # <<>>
    /\ e.submenu.t \in {"missing", "str"}
    /\ e.icon.t \in {"None", "str"}
    /\ e.enabled.t = "bool"

\* this step is a save_tools call that wrote the file and reported success
SavedStep ==
    /\ saves' = saves + 1
    /\ fault' = "none"
    /\ dialogs'[Len(dialogs')] = Dialog("saved")

\* the table is what load_tools makes of the declaration file as it is now
FreshlyLoaded ==
    /\ editor = "open"
    /\ actions_json.exists
    /\ ~load_tools(actions_json).error
    /\ table = load_tools(actions_json).rows

\* C14: load_tools followed by save_tools with no edit writes every well-formed
\* functional record back unchanged, and a second load and save writes the same file.
C14_EditorRoundTrip ==
    [][(FreshlyLoaded /\ SavedStep) =>
          /\ \A i \in DOMAIN actions_json.tools :
                FunctionalRecord(actions_json.tools[i]) =>
                    \E j \in DOMAIN actions_json'.tools :
                        actions_json'.tools[j] = actions_json.tools[i]
          /\ ToolsOfTable(load_tools(actions_json').rows) = actions_json'.tools]_vars

\* this step is a save_tools call in which nothing raised up to the end of the write
WroteStep == saves' = saves + 1 /\ fault' = "none"

\* C15: a save that finds the declaration file and succeeds leaves in the .bak file
\* exactly the content the declaration file had before the save, whatever the .bak
\* held before.
C15_BackupHoldsPrevious ==
    [][(WroteStep /\ actions_json.exists) => actions_bak' = actions_json]_vars

\* two saves were written, and the .bak holds the first one, which differs from the second
C15_Witness ==
    /\ saves = 2 /\ fault = "none"
    /\ actions_bak.exists /\ actions_bak.valid
    /\ \E i \in DOMAIN actions_bak.tools : actions_bak.tools[i] = SettingsRecord
    /\ actions_bak # actions_json

\* this step is a save_tools call whose rename, open or dump raised
FailedWriteStep == saves' = saves + 1 /\ fault' # "none"

\* C16: when the rename, the open or the dump of save_tools raises, the Save Error
\* dialog is the last thing shown, the dialog stays open (nothing propagates), and
\* neither the menu refresh nor the success notification happens.
C16_WriteFailureReported ==
    [][FailedWriteStep =>
          /\ Len(dialogs') > Len(dialogs)
          /\ dialogs'[Len(dialogs')] = Dialog("Save Error")
          /\ \A i \in (Len(dialogs) + 1)..Len(dialogs') : dialogs'[i] # Dialog("saved")
          /\ refreshes' = refreshes
          /\ menubar' = menubar
          /\ editor' = "open"]_vars

\* a save whose json.dump raised: the file is cut short and the error was shown
C16_Witness ==
    /\ saves >= 1 /\ fault = "dump"
    /\ actions_json = Truncated
    /\ dialogs # <<>> /\ dialogs[Len(dialogs)] = Dialog("Save Error")

\* C17: the run of load_tools_from_config that follows a successful save builds the
\* custom menu from the records that were saved.
C17_LoaderReadsSavedFile ==
    [][(loads' = loads + 1 /\ saves >= 1 /\ fault = "none") =>
          CustomMenu' = Loaded([exists |-> TRUE, tools |-> actions_json.tools]).menu]_vars

\* C18: without a toolbar_title key in the configuration the loader's custom menu, the
\* registry's root menu, the menu of add_mac_top_menu and the editor dialog all come
\* up, titled "Custom Tools".
C18_DefaultTitleEverywhere ==
    CONFIG.toolbar_title = Missing =>
        /\ loads >= 1 => CustomMenu.title = <<"Custom Tools">>
        /\ TopTitle(<<>>) = <<"Custom Tools">>
        /\ macMenu.ran => (~macMenu.raised /\ macMenu.title = <<"Custom Tools">>)
        /\ opens >= 1 => (editor # "failed" /\ windowTitle = <<"Custom Tools">>)

\* C20: the list written by a successful save holds a record named "Toolbar Settings"
\* (whatever the letter case); when no row carried the name, it is the last record,
\* points to Main_Toolbar.toolbar_editor.edit_toolbar_json and is enabled.
C20_SettingsRecordSaved ==
    [][WroteStep =>
          LET tools == actions_json'.tools
              last == tools[Len(tools)]
          IN  /\ actions_json'.exists /\ actions_json'.valid
              /\ \E i \in DOMAIN tools : Lower(Strip(tools[i].name.s)) = <<"toolbar settings">>
              /\ (\A i \in DOMAIN table : Lower(Strip(table[i].name)) # <<"toolbar settings">>)
                    => /\ Len(tools) = Len(table) + 1
                       /\ last.name = PyStr(<<"Toolbar Settings">>)
                       /\ last.module = PyStr(<<"Main_Toolbar.toolbar_editor">>)
                       /\ last.function = PyStr(<<"edit_toolbar_json">>)
                       /\ last.enabled = PyBool(TRUE)]_vars

\* a save of the empty table wrote the one record
C20_Witness ==
    /\ saves >= 1 /\ fault = "none"
    /\ editor = "open" /\ table = <<>>
    /\ actions_json.exists /\ Len(actions_json.tools) = 1

-----------------------------------------------------------------------------
(* The duplicate-image cleanup *)

\* C19: every dialog or message of a cleanup run is shown from the UI thread; the
\* unit of work that runs on the worker thread shows none, also when writing a note
\* back fails.
C19_NoUiOnWorkerThread ==
    \A i \in DOMAIN ui : ui[i].thread = "main"

-----------------------------------------------------------------------------
(* The declaration editor: dividers, record order, live menu, failing saves *)

\* C21: a divider inserted with add_divider is saved as type "separator", name of
\* three em dashes, and module, function, submenu and icon all empty.
C21_DividerSavedAsInserted ==
    [][WroteStep =>
          \A i \in DOMAIN table :
              table[i] = add_row(DividerTool) =>
                  /\ actions_json'.tools[i].type = PyStr(<<"separator">>)
                  /\ actions_json'.tools[i].name = PyStr(CanonicalDivider)
                  /\ actions_json'.tools[i].module = PyStr(<<>>)
                  /\ actions_json'.tools[i].function = PyStr(<<>>)
                  /\ actions_json'.tools[i].submenu = PyStr(<<>>)
                  /\ actions_json'.tools[i].icon = PyStr(<<>>)]_vars

\* the kind of a record as the loader reads it: "separator", "label" or "tool"
KindsOf(tools) == [i \in DOMAIN tools |-> KindOf(tools[i])]

\* the written list without the "Toolbar Settings" record that the save appended
\* because the loaded list had none
WithoutAppended(loaded, written) ==
    IF \E i \in DOMAIN loaded : loaded[i].name.t = "str" /\ IsSettingsName(loaded[i].name.s)
    THEN written ELSE SubSeq(written, 1, Len(written) - 1)

\* C22: opening the editor and saving without an edit writes a list of the same
\* length as the one loaded (the appended "Toolbar Settings" record aside), whose
\* records have the same kinds in the same order.
C22_SaveKeepsSequence ==
    [][(FreshlyLoaded /\ SavedStep) =>
          LET written == WithoutAppended(actions_json.tools, actions_json'.tools)
          IN  /\ Len(written) = Len(actions_json.tools)
              /\ KindsOf(written) = KindsOf(actions_json.tools)]_vars

RECURSIVE HasItem(_, _)
\* some item below children shows the text
HasItem(children, text) ==
    \E i \in DOMAIN children :
        \/ IsAction(children[i]) /\ children[i].text = text
        \/ IsMenu(children[i]) /\ HasItem(children[i].children, text)

\* C23: after a successful save the live menus (the menubar and the host Tools menu)
\* show an item for every enabled functional record that was just written.
C23_LiveMenuShowsSaved ==
    [][SavedStep =>
          \A i \in DOMAIN actions_json'.tools :
              LET e == actions_json'.tools[i]
              IN  (KindOf(e) = "tool" /\ e.enabled = PyBool(TRUE) /\ e.name.s # <<>>
                      /\ e.module.s # <<>> /\ e.function.s # <<>>)
                    => HasItem(menubar', e.name.s) \/ HasItem(menuTools', e.name.s)]_vars

\* C24: whatever save attempts follow, the content of the last save that succeeded
\* is in full at the declaration file's path or at its .bak sibling.
C24_LastSaveSurvives ==
    saved.exists => (actions_json = saved \/ actions_bak = saved)

-----------------------------------------------------------------------------
(* Repeated loading *)

RECURSIVE CountItems(_, _)
\* number of items below children that show the text
CountItems(children, text) ==
    IF children = <<>> THEN 0
    ELSE (CASE IsMenu(Head(children)) -> CountItems(Head(children).children, text)
            [] IsAction(Head(children)) /\ Head(children).text = text -> 1
            [] OTHER -> 0)
         + CountItems(Tail(children), text)

\* the menus of the host Tools menu that carry the toolbar title
CustomMenus == SelectSeq(menuTools, LAMBDA a : IsMenu(a) /\ a.title = toolbar_title)

\* C25: after any number of loads, each followed by load_other_configs, the host Tools
\* menu holds exactly one menu with the toolbar title, that menu holds at most one
\* submenu per title, and each add-on configuration entry appears once.
C25_LoadingNeverDuplicates ==
    loads >= 1 =>
        /\ Len(CustomMenus) = 1
        /\ \A i \in DOMAIN CustomMenus : NoDuplicateSiblings(CustomMenus[i].children)
        /\ Truthy(Get(CONFIG, "enable_toolbar_settings", PyBool(FALSE))) =>
              \A i \in DOMAIN build_config_tools :
                  CountItems(menuTools, build_config_tools[i].text) = 1

-----------------------------------------------------------------------------
(* C26 *)

Occurrences(seq, x) == Cardinality({i \in DOMAIN seq : seq[i] = x})

(* The shortcuts a configuration names. *)
ConfiguredShortcuts(cfg) ==
    IF IsDict(cfg) /\ cfg.shortcuts # Missing /\ IsMapping(cfg.shortcuts)
    THEN {register_shortcut(cfg.shortcuts.items[i].key, cfg.shortcuts.items[i].template) :
              i \in DOMAIN cfg.shortcuts.items}
    ELSE {}

HoldsExactly(seq, set) ==
    /\ \A i \in DOMAIN seq : seq[i] \in set
    /\ \A x \in set : Occurrences(seq, x) = 1

\* C26: over any interleaving of editor_did_init, editor_did_load_note and
\* reload_config, an editor holds after its first event every configured
\* shortcut and the reload shortcut exactly once, and no later step (another
\* event or a reload_config) adds, removes or rebinds a shortcut of an editor
\* that already had an event.
C26_ShortcutsOncePerEditor ==
    [][\A e \in Editors :
          /\ (e \in touched' /\ e \notin touched) =>
                HoldsExactly(shortcuts'[e], ConfiguredShortcuts(CONFIG_wrap) \cup {reload_shortcut})
          /\ e \in touched => shortcuts'[e] = shortcuts[e]
          /\ e \notin touched' => shortcuts'[e] = <<>>]_vars

-----------------------------------------------------------------------------
(* C27 *)

IsTag(c) == c.kind \in {"img", "IMG"}

RECURSIVE FirstOfEachSource(_, _)
\* the content with every tag dropped whose source an earlier tag of the content has,
\* whatever the case of the tag name
FirstOfEachSource(content, sources) ==
    IF content = <<>> THEN <<>>
    ELSE LET c == Head(content)
         IN  IF IsTag(c)
             THEN IF c.src \in sources
                  THEN FirstOfEachSource(Tail(content), sources)
                  ELSE <<c>> \o FirstOfEachSource(Tail(content), sources \cup {c.src})
             ELSE <<c>> \o FirstOfEachSource(Tail(content), sources)

OneTagPerSource(content) ==
    \A i, j \in DOMAIN content :
        (IsTag(content[i]) /\ IsTag(content[j]) /\ content[i].src = content[j].src) => i = j

ExpectedField(original) ==
    IF original = NoField THEN NoField ELSE FirstOfEachSource(original, {})

\* C27: when process_notes has handled a note (and writing it did not fail), each
\* scanned field of the note holds the first tag of each image source and no later
\* tag of the same source, with everything else in its place, whatever the case of
\* the tag name; and the note is written back (listed in removed_nids) if and only
\* if one of its scanned fields changed.
C27_OneTagPerSource ==
    [][(pc = "working" /\ cursor' = cursor + 1 /\ ui' = ui) =>
          LET nid == note_ids[cursor]
              before == col[nid]
              after == col'[nid]
          IN  /\ after.Text = ExpectedField(before.Text)
              /\ after.Extra = ExpectedField(before.Extra)
              /\ after.Text # NoField => OneTagPerSource(after.Text)
              /\ after.Extra # NoField => OneTagPerSource(after.Extra)
              /\ (removed_nids' = Append(removed_nids, nid)) <=>
                    (before.Text # ExpectedField(before.Text)
                        \/ before.Extra # ExpectedField(before.Extra))
              /\ removed_nids' \in {removed_nids, Append(removed_nids, nid)}]_vars

-----------------------------------------------------------------------------
(* C28 *)

IsBlank(text) == \A i \in DOMAIN text : text[i] = " "

\* C28: a run of the cleanup whose prompt was cancelled, or accepted with an empty
\* or whitespace-only text, stops before any search: find_notes is not called, no
\* note changes, no dialog beyond the prompt is shown and no background operation
\* is started.
C28_NoQueryNoSearch ==
    [][(runs' = runs + 1 /\ (~prompt'.accepted \/ IsBlank(prompt'.text))) =>
          /\ finds' = finds
          /\ note_ids' = note_ids
          /\ col' = col
          /\ pc' = "idle"
          /\ ui' = Append(ui, Ui("QInputDialog", "main"))]_vars

-----------------------------------------------------------------------------
(* C29 *)

\* the note types that a call with these settings is to leave in the collection
Survivors(ms, call) ==
    IF call.variant = "configured" /\ call.confirm /\ ~call.answer
    THEN ms
    ELSE SelectSeq(ms, LAMBDA m : m.count > 0 \/ m.name \in call.protected)

\* C29: a call of delete_empty_note_types removes exactly the note types that have
\* zero cards at the time of the call: a note type with a card stays, in the
\* configured variant a protected note type stays, and nothing is removed when the
\* confirmation is declined, also when two note types share a name.
C29_OnlyEmptyTypesRemoved ==
    [][dels' = dels + 1 => models' = Survivors(models, lastDelete')]_vars

====
